---- MODULE Spec2Model ----
(***************************************************************************)
(* Driving controller of the Cloud Derby car: the inbound sensor-message   *)
(* handler, the publish path with its command history, the operator        *)
(* routes, and the Navigation class that turns one sensor message into one *)
(* drive command.                                                          *)
(*                                                                         *)
(* Numbers: bounding-box coordinates are thousandths of the image size,    *)
(* scores are hundredths, camera lengths are hundredths of a millimetre,   *)
(* the field of view is tenths of a degree.  Distances, angles and speeds  *)
(* that the code rounds are integers here as well.                         *)
(***************************************************************************)
EXTENDS Integers, Sequences, FiniteSets, TLC

VARIABLES
    currentDrivingMode,         \* app: current driving mode of the car
    outboundMsgHistory,         \* app: the array the global outboundMsgHistory names
    commandHistory,             \* navigation.commandHistory: the array the engine reads
    sameArray,                  \* TRUE while both names denote the same array object
    nextDrivingCommand,         \* app: command kept for the debugger
    inboundMsgHistory,          \* app: history of admitted sensor messages
    totalMessagesReceived,
    rejectedOutOfOrderMessages,
    rejectedFormatMessages,
    totalMessagesSent,
    totalErrors,
    maxMsgTimeStampMs,
    listenerStatus,
    ballColor,
    now,                        \* wall clock, new Date().getTime()
    decisions,                  \* nextMove calls waiting for recognizeObjects
    publishing,                 \* command_topic.publish calls waiting for their callback
    simulate,                   \* navigation: driveSimulation.simulate
    lastOp                      \* the operation that made the last step

vars == << currentDrivingMode, outboundMsgHistory, commandHistory, sameArray,
           nextDrivingCommand, inboundMsgHistory, totalMessagesReceived,
           rejectedOutOfOrderMessages, rejectedFormatMessages, totalMessagesSent,
           totalErrors, maxMsgTimeStampMs, listenerStatus, ballColor, now,
           decisions, publishing, simulate, lastOp >>

----------------------------------------------------------------------------
(* drive-message.js: modes, goals and the DriveMessage builder *)

MANUAL_MODE == "manual"
AUTOMATIC_MODE == "automatic"
DEBUG_MODE == "debug"

GO2BALL == "GO_TO_BALL"
GO2BASE == "GO_TO_BASE"
SEEK_BALL_TURN == "SEEK_BALL_TURN"
SEEK_BALL_MOVE == "SEEK_BALL_MOVE"
SEEK_HOME_TURN == "SEEK_HOME_TURN"
CHECK_GRIP == "CHECK_GRIP"
GAME_END == "GAME_END"

Undefined == "undefined"

\* new DriveMessage()
NewDriveMessage ==
    [mode |-> Undefined, goal |-> Undefined, correlationID |-> 0, actions |-> << >>]

SetMode(c, m) == [c EXCEPT !.mode = m]
SetGoal(c, g) == [c EXCEPT !.goal = g]
SetCorrelationID(c, t) == [c EXCEPT !.correlationID = t]
AddAction(c, op, arg) == [c EXCEPT !.actions = Append(@, <<op, arg>>)]

SetSpeed(c, s) == AddAction(c, "setSpeed", s)
MakeTurn(c, a) == AddAction(c, "turn", a)
TurnRight(c, a) == AddAction(c, "turnRight", a)
Drive(c, d) == AddAction(c, "drive", d)
GripperOpen(c) == AddAction(c, "gripperOpen", 0)
GripperClose(c) == AddAction(c, "gripperClose", 0)
AddBallCount(c) == AddAction(c, "addBallCount", 1)
SendSensorMessage(c) == AddAction(c, "sendSensorMessage", 0)
SetOnDemandSensorRate(c) == AddAction(c, "setOnDemandSensorRate", 0)
SetColor(c, color) == AddAction(c, "setColor", color)

----------------------------------------------------------------------------
(* game-settings.js *)

MAX_SPEED == 100
BALLS_NEEDED == 3
BALL_SIZE_MM == 60
HOME_SIZE_MM == 200
MIN_DISTANCE_TO_CAMERA_MM == 0
H_FIELD_OF_VIEW == 622          \* tenths of a degree
FOCAL_LENGTH_MM == 304          \* hundredths of a millimetre
SENSOR_HEIGHT_MM == 276         \* hundredths of a millimetre
BALL_LABEL_SUFFIX == <<"ball">>
HOME_LABEL_SUFFIX == <<"home">>

----------------------------------------------------------------------------
(* navigation.js *)

TURN_SPEED == MAX_SPEED \div 10
HIGH_BALL_TOP_BOUND == 200      \* 0.2
HIGH_BALL_SCORE == 50           \* 0.5

Max(a, b) == IF a >= b THEN a ELSE b
Abs(a) == IF a < 0 THEN -a ELSE a

\* Math.round of the rational n/d, d > 0: the nearest integer, halves upwards
Round(n, d) == (2 * n + d) \div (2 * d)

\* label.indexOf(objectType) >= 0 on lower-cased labels, a label being its
\* sequence of words
Contains(label, objectType) ==
    \E i \in 0..(Len(label) - Len(objectType)) :
        \A j \in 1..Len(objectType) : label[i + j] = objectType[j]

\* countGoals(goal) on history h
RECURSIVE CountFrom(_, _, _)
CountFrom(h, i, goal) ==
    IF i > 0 /\ h[i].goal = goal THEN 1 + CountFrom(h, i - 1, goal) ELSE 0

\* countGoals counting the commands with the goal anywhere in the history
CountGoalsAnywhere(h, goal) == Cardinality({j \in 1..Len(h) : h[j].goal = goal})

CountGoals(h, goal) == CountFrom(h, Len(h), goal)

\* the false-positive test with || for &
IsFalsePositiveEither(obj) ==
    /\ Contains(obj.label, BALL_LABEL_SUFFIX)
    /\ (obj.score < HIGH_BALL_SCORE \/ obj.y < HIGH_BALL_TOP_BOUND)

\* findNearestObject: the scan runs from the last box to the first; acc is
\* <<foundSize, nearestObject>>
IsFalsePositive(obj) ==
    /\ Contains(obj.label, BALL_LABEL_SUFFIX)
    /\ obj.score < HIGH_BALL_SCORE
    /\ obj.y < HIGH_BALL_TOP_BOUND

RECURSIVE ScanBoxes(_, _, _, _)
ScanBoxes(objectType, bBoxes, i, acc) ==
    IF i = 0 THEN acc
    ELSE LET obj == bBoxes[i]
             thisSize == Max(obj.w, obj.h) * obj.score
         IN  IF IsFalsePositive(obj)
             THEN ScanBoxes(objectType, bBoxes, i - 1, acc)
             ELSE IF Contains(obj.label, objectType) /\ acc[1] < thisSize
                  THEN ScanBoxes(objectType, bBoxes, i - 1, <<thisSize, <<obj>> >>)
                  ELSE ScanBoxes(objectType, bBoxes, i - 1, acc)

\* findNearestObject scanning the boxes from the first to the last
RECURSIVE ScanBoxesForward(_, _, _, _)
ScanBoxesForward(objectType, bBoxes, i, acc) ==
    IF i > Len(bBoxes) THEN acc
    ELSE LET obj == bBoxes[i]
             thisSize == Max(obj.w, obj.h) * obj.score
         IN  IF IsFalsePositive(obj)
             THEN ScanBoxesForward(objectType, bBoxes, i + 1, acc)
             ELSE IF Contains(obj.label, objectType) /\ acc[1] < thisSize
                  THEN ScanBoxesForward(objectType, bBoxes, i + 1, <<thisSize, <<obj>> >>)
                  ELSE ScanBoxesForward(objectType, bBoxes, i + 1, acc)

FindNearestObjectForward(objectType, bBoxes) ==
    ScanBoxesForward(objectType, bBoxes, 1, <<0, << >> >>)[2]

\* the result is << >> for undefined, <<obj>> for a found object
FindNearestObject(objectType, bBoxes) ==
    ScanBoxes(objectType, bBoxes, Len(bBoxes), <<0, << >> >>)[2]

\* findAngle measuring the offset from the object to the centre of the image
FindAngleMirrored(bBox) ==
    Round((1000 - 2 * bBox.x - bBox.w) * H_FIELD_OF_VIEW * 3, 2000 * 10 * 4)

\* findAngle: round((x + w/2 - 0.5) * H_FIELD_OF_VIEW * 0.75)
FindAngle(bBox) ==
    Round((2 * bBox.x + bBox.w - 1000) * H_FIELD_OF_VIEW * 3, 2000 * 10 * 4)

\* findDistanceMM: the pinhole distance is the rational PinholeNum / PinholeDen
PinholeDen(bBox) == Max(bBox.h, bBox.w) * SENSOR_HEIGHT_MM
PinholeNum(bBox, size) ==
    FOCAL_LENGTH_MM * size * 1000 - MIN_DISTANCE_TO_CAMERA_MM * PinholeDen(bBox)

\* findDistanceMM with the near band reaching up to 96 mm
FindDistanceMMWideNear(bBox, size) ==
    LET n == PinholeNum(bBox, size)
        d == PinholeDen(bBox)
    IN  IF n < 96 * d THEN 20
        ELSE IF n < 325 * d THEN Round(n - 35 * d, d)
        ELSE Round(n, d)

FindDistanceMM(bBox, size) ==
    LET n == PinholeNum(bBox, size)
        d == PinholeDen(bBox)
    IN  IF n < 95 * d THEN 20
        ELSE IF n < 325 * d THEN Round(n - 35 * d, d)
        ELSE Round(n, d)

\* ballSearchStrategy turning once more instead of driving backwards
BallSearchStrategyNeverBack(h, r1, r2) ==
    LET command == SetMode(NewDriveMessage, AUTOMATIC_MODE)
        distance == 100 + ((r1 * 600) \div 1000)
    IN  IF CountGoals(h, SEEK_BALL_TURN) < 5 \/ r2 < 250
        THEN MakeTurn(SetSpeed(SetGoal(command, SEEK_BALL_TURN), TURN_SPEED), 67)
        ELSE Drive(SetSpeed(SetGoal(command, SEEK_BALL_MOVE), TURN_SPEED), distance)

\* ballSearchStrategy relocating after the sixth turn only
BallSearchStrategyLateMove(h, r1, r2) ==
    LET command == SetMode(NewDriveMessage, AUTOMATIC_MODE)
        distance == 100 + ((r1 * 600) \div 1000)
    IN  IF CountGoals(h, SEEK_BALL_TURN) <= 5
        THEN MakeTurn(SetSpeed(SetGoal(command, SEEK_BALL_TURN), TURN_SPEED), 67)
        ELSE Drive(SetSpeed(SetGoal(command, SEEK_BALL_MOVE), TURN_SPEED),
                   IF r2 < 250 THEN -distance ELSE distance)

\* ballSearchStrategy; r1 and r2 are the two Math.random() draws in thousandths
BallSearchStrategy(h, r1, r2) ==
    LET command == SetMode(NewDriveMessage, AUTOMATIC_MODE)
        distance == 100 + ((r1 * 600) \div 1000)
    IN  IF CountGoals(h, SEEK_BALL_TURN) < 5
        THEN MakeTurn(SetSpeed(SetGoal(command, SEEK_BALL_TURN), TURN_SPEED), 67)
        ELSE Drive(SetSpeed(SetGoal(command, SEEK_BALL_MOVE), TURN_SPEED),
                   IF r2 < 250 THEN -distance ELSE distance)

\* homeSearchStrategy rounding the random part of the distance up
HomeSearchStrategyCeil(h, r1) ==
    LET command == SetMode(NewDriveMessage, AUTOMATIC_MODE)
        distance == 200 + ((r1 * 700 + 999) \div 1000)
    IN  IF CountGoals(h, SEEK_HOME_TURN) < 5
        THEN MakeTurn(SetSpeed(SetGoal(command, SEEK_HOME_TURN), MAX_SPEED), 60)
        ELSE Drive(SetSpeed(SetGoal(command, GO2BASE), MAX_SPEED), distance)

\* homeSearchStrategy; r1 is the Math.random() draw in thousandths
HomeSearchStrategy(h, r1) ==
    LET command == SetMode(NewDriveMessage, AUTOMATIC_MODE)
        distance == 200 + ((r1 * 700) \div 1000)
    IN  IF CountGoals(h, SEEK_HOME_TURN) < 5
        THEN MakeTurn(SetSpeed(SetGoal(command, SEEK_HOME_TURN), MAX_SPEED), 60)
        ELSE Drive(SetSpeed(SetGoal(command, GO2BASE), MAX_SPEED), distance)

\* The engine's results: << >> when the call throws, <<command>> otherwise
Thrown == << >>
Returned(command) == <<command>>

\* calculateBallDirections with one of its tests changed: variant is
\* "gripUnchecked" (a capture goes to the base without the CHECK_GRIP cycle),
\* "obstacleFirst" (the obstacle is tested before the slow-approach zone) or
\* "obstacleIgnored" (the obstacle is not tested)
CalculateBallDirectionsVariant(h, bBox, obstacleFound, r1, r2, variant) ==
    LET angle == FindAngle(bBox)
        distance == FindDistanceMM(bBox, BALL_SIZE_MM)
        command == SetMode(NewDriveMessage, AUTOMATIC_MODE)
        slow == Returned(Drive(SetSpeed(GripperOpen(MakeTurn(SetGoal(command, GO2BALL), angle)),
                                        (MAX_SPEED * 5) \div 100),
                               distance + 30))
        far == Returned(Drive(SetSpeed(MakeTurn(SetGoal(command, GO2BALL), angle), MAX_SPEED),
                              distance - 125))
        search == Returned(BallSearchStrategy(h, r1, r2))
    IN  IF Abs(angle) <= 10 /\ distance <= 70
        THEN IF Len(h) = 0
             THEN Thrown
             ELSE IF h[Len(h)].goal = CHECK_GRIP \/ variant = "gripUnchecked"
                  THEN Returned(SetGoal(command, GO2BASE))
                  ELSE Returned(Drive(SetSpeed(SetGoal(GripperClose(command), CHECK_GRIP),
                                               MAX_SPEED \div 2),
                                      -250))
        ELSE IF variant = "obstacleFirst" /\ obstacleFound THEN search
        ELSE IF distance < 250 THEN slow
        ELSE IF obstacleFound /\ variant # "obstacleIgnored" THEN search
        ELSE far

CalculateBallDirectionsGripUnchecked(h, bBox, obstacleFound, r1, r2) ==
    CalculateBallDirectionsVariant(h, bBox, obstacleFound, r1, r2, "gripUnchecked")

CalculateBallDirectionsObstacleFirst(h, bBox, obstacleFound, r1, r2) ==
    CalculateBallDirectionsVariant(h, bBox, obstacleFound, r1, r2, "obstacleFirst")

CalculateBallDirectionsObstacleIgnored(h, bBox, obstacleFound, r1, r2) ==
    CalculateBallDirectionsVariant(h, bBox, obstacleFound, r1, r2, "obstacleIgnored")

\* calculateBallDirections
CalculateBallDirections(h, bBox, obstacleFound, r1, r2) ==
    LET angle == FindAngle(bBox)
        distance == FindDistanceMM(bBox, BALL_SIZE_MM)
        command == SetMode(NewDriveMessage, AUTOMATIC_MODE)
        slowApproachZoneMm == 250
        ballCaptureDistanceMm == 70
        ballCaptureAngle == 10
        EXTRA_DISTANCE == 30
    IN  IF Abs(angle) <= ballCaptureAngle /\ distance <= ballCaptureDistanceMm
        THEN IF Len(h) = 0
             THEN Thrown     \* commandHistory[-1] is undefined: reading .goal throws
             ELSE IF h[Len(h)].goal = CHECK_GRIP
                  THEN Returned(SetGoal(command, GO2BASE))
                  ELSE Returned(Drive(SetSpeed(SetGoal(GripperClose(command), CHECK_GRIP),
                                               MAX_SPEED \div 2),
                                      -slowApproachZoneMm))
        ELSE IF distance < slowApproachZoneMm
             THEN Returned(Drive(SetSpeed(GripperOpen(MakeTurn(SetGoal(command, GO2BALL), angle)),
                                          (MAX_SPEED * 5) \div 100),
                                 distance + EXTRA_DISTANCE))
             ELSE IF obstacleFound
                  THEN Returned(BallSearchStrategy(h, r1, r2))
                  ELSE Returned(Drive(SetSpeed(MakeTurn(SetGoal(command, GO2BALL), angle),
                                               MAX_SPEED),
                                      distance - (slowApproachZoneMm \div 2)))

\* calculateHomeDirections with the obstacle tested before the release distance
CalculateHomeDirectionsObstacleFirst(h, bBox, obstacleFound, r1) ==
    LET angle == FindAngle(bBox)
        distance == FindDistanceMM(bBox, HOME_SIZE_MM)
        command == SetMode(NewDriveMessage, AUTOMATIC_MODE)
    IN  IF obstacleFound
        THEN HomeSearchStrategy(h, r1)
        ELSE IF distance < 850
        THEN SetGoal(
               GripperClose(TurnRight(SetSpeed(
                 Drive(SetSpeed(
                   Drive(SetSpeed(GripperOpen(AddBallCount(command)), MAX_SPEED \div 10), -100),
                   MAX_SPEED), -1000),
                 TURN_SPEED), 90)),
               GO2BALL)
        ELSE Drive(SetSpeed(MakeTurn(SetSpeed(SetGoal(command, GO2BASE), TURN_SPEED), angle),
                            MAX_SPEED),
                   distance - 850 + 100)

\* calculateHomeDirections
CalculateHomeDirections(h, bBox, obstacleFound, r1) ==
    LET angle == FindAngle(bBox)
        distance == FindDistanceMM(bBox, HOME_SIZE_MM)
        command == SetMode(NewDriveMessage, AUTOMATIC_MODE)
        BALL_RELEASE_DISTANCE == 850
        EXTRA_DISTANCE == 100
    IN  IF distance < BALL_RELEASE_DISTANCE
        THEN SetGoal(
               GripperClose(TurnRight(SetSpeed(
                 Drive(SetSpeed(
                   Drive(SetSpeed(GripperOpen(AddBallCount(command)), MAX_SPEED \div 10), -100),
                   MAX_SPEED), -1000),
                 TURN_SPEED), 90)),
               GO2BALL)
        ELSE IF obstacleFound
             THEN HomeSearchStrategy(h, r1)
             ELSE Drive(SetSpeed(MakeTurn(SetSpeed(SetGoal(command, GO2BASE), TURN_SPEED), angle),
                                 MAX_SPEED),
                        distance - BALL_RELEASE_DISTANCE + EXTRA_DISTANCE)

\* carState.obstacleFound != undefined && carState.obstacleFound
ObstacleFound(sensorMessage) == sensorMessage.obstacleFound

\* navigate2home, from the point where recognizeObjects has answered bBoxes
Navigate2home(h, sensorMessage, bBoxes, r1) ==
    LET objectLabel == <<sensorMessage.color>> \o HOME_LABEL_SUFFIX
        bBox == FindNearestObject(objectLabel, bBoxes)
        command == IF bBox # << >>
                   THEN CalculateHomeDirections(h, bBox[1], ObstacleFound(sensorMessage), r1)
                   ELSE HomeSearchStrategy(h, r1)
    IN  Returned(SendSensorMessage(SetCorrelationID(command, sensorMessage.timestampMs)))

\* navigate2ball computing directions to a ball that was not found
Navigate2ballFailingOnAbsence(h, sensorMessage, bBoxes, r1, r2) ==
    LET objectLabel == <<sensorMessage.color>> \o BALL_LABEL_SUFFIX
        bBox == FindNearestObject(objectLabel, bBoxes)
        command == IF bBox # << >>
                   THEN CalculateBallDirections(h, bBox[1], ObstacleFound(sensorMessage), r1, r2)
                   ELSE Thrown
    IN  IF command = Thrown THEN Thrown
        ELSE Returned(SendSensorMessage(SetCorrelationID(command[1], sensorMessage.timestampMs)))

\* navigate2ball, from the point where recognizeObjects has answered bBoxes
Navigate2ball(h, sensorMessage, bBoxes, r1, r2) ==
    LET objectLabel == <<sensorMessage.color>> \o BALL_LABEL_SUFFIX
        bBox == FindNearestObject(objectLabel, bBoxes)
        command == IF bBox # << >>
                   THEN CalculateBallDirections(h, bBox[1], ObstacleFound(sensorMessage), r1, r2)
                   ELSE Returned(BallSearchStrategy(h, r1, r2))
    IN  IF command = Thrown THEN Thrown
        ELSE Returned(SendSensorMessage(SetCorrelationID(command[1], sensorMessage.timestampMs)))

\* navigate2ball in simulation mode: what driveSimulation.nextDrivingCommand()
\* returns.  The call takes no argument, so the command is made without the
\* sensor message: a fake drive or a fake turn, as the DriveMessage builder
\* leaves them
SimulatedCommands ==
    {Drive(SetSpeed(SetGoal(SetMode(NewDriveMessage, AUTOMATIC_MODE), GO2BALL),
                    MAX_SPEED), 100),
     MakeTurn(SetSpeed(SetGoal(SetMode(NewDriveMessage, AUTOMATIC_MODE), SEEK_BALL_TURN),
                       TURN_SPEED), 67)}

\* gameOver putting the car into automatic mode
GameOverInAutomaticMode(sensorMessage) ==
    SendSensorMessage(SetGoal(SetCorrelationID(SetMode(NewDriveMessage, AUTOMATIC_MODE),
                                               sensorMessage.timestampMs),
                              GAME_END))

\* gameOver
GameOver(sensorMessage) ==
    SendSensorMessage(SetGoal(SetCorrelationID(NewDriveMessage, sensorMessage.timestampMs),
                              GAME_END))

\* nextMove with the ball count tested before the home goals
NextMoveBranchBallsFirst(h, sensorMessage) ==
    IF ~sensorMessage.hasCarState THEN "throw"
    ELSE IF sensorMessage.ballsCollected < BALLS_NEEDED THEN "ball"
    ELSE IF CountGoals(h, GO2BASE) > 0 \/ CountGoals(h, SEEK_HOME_TURN) > 0 THEN "home"
    ELSE "end"

\* nextMove, the branch taken by its first callback: "throw" when carState is
\* missing, else the objective
NextMoveBranch(h, sensorMessage) ==
    IF ~sensorMessage.hasCarState THEN "throw"
    ELSE IF CountGoals(h, GO2BASE) > 0 \/ CountGoals(h, SEEK_HOME_TURN) > 0 THEN "home"
    ELSE IF sensorMessage.ballsCollected < BALLS_NEEDED THEN "ball"
    ELSE "end"

----------------------------------------------------------------------------
(* app.js: the driving controller *)

MAX_MSG_AGE_SEC == 60
MAX_INBOUND_HISTORY == 3600
MAX_OUTBOUND_HISTORY == 3600

\* An optional command: << >> is undefined, <<c>> is the command c
NoCommand == << >>

\* isMessageValid without the test of the message's age
IsMessageValidAnyAge(msg, maxTs, rejFormat, rejOrder, clock) ==
    IF msg.timestampMs = 0
    THEN <<FALSE, maxTs, rejFormat + 1, rejOrder>>
    ELSE IF maxTs > msg.timestampMs
    THEN <<FALSE, maxTs, rejFormat, rejOrder + 1>>
    ELSE <<TRUE, msg.timestampMs, rejFormat, rejOrder>>

\* isMessageValid counting an old message as a format error
IsMessageValidOldAsFormat(msg, maxTs, rejFormat, rejOrder, clock) ==
    IF msg.timestampMs = 0
    THEN <<FALSE, maxTs, rejFormat + 1, rejOrder>>
    ELSE IF maxTs > msg.timestampMs
    THEN <<FALSE, maxTs, rejFormat, rejOrder + 1>>
    ELSE IF msg.timestampMs < clock - MAX_MSG_AGE_SEC * 1000
    THEN <<FALSE, msg.timestampMs, rejFormat + 1, rejOrder>>
    ELSE <<TRUE, msg.timestampMs, rejFormat, rejOrder>>

\* isMessageValid rejecting an old message without counting it
IsMessageValidOldUncounted(msg, maxTs, rejFormat, rejOrder, clock) ==
    IF msg.timestampMs = 0
    THEN <<FALSE, maxTs, rejFormat + 1, rejOrder>>
    ELSE IF maxTs > msg.timestampMs
    THEN <<FALSE, maxTs, rejFormat, rejOrder + 1>>
    ELSE IF msg.timestampMs < clock - MAX_MSG_AGE_SEC * 1000
    THEN <<FALSE, msg.timestampMs, rejFormat, rejOrder>>
    ELSE <<TRUE, msg.timestampMs, rejFormat, rejOrder>>

\* isMessageValid testing the age before it records the timestamp
IsMessageValidAgeFirst(msg, maxTs, rejFormat, rejOrder, clock) ==
    IF msg.timestampMs = 0
    THEN <<FALSE, maxTs, rejFormat + 1, rejOrder>>
    ELSE IF maxTs > msg.timestampMs
    THEN <<FALSE, maxTs, rejFormat, rejOrder + 1>>
    ELSE IF msg.timestampMs < clock - MAX_MSG_AGE_SEC * 1000
    THEN <<FALSE, maxTs, rejFormat, rejOrder + 1>>
    ELSE <<TRUE, msg.timestampMs, rejFormat, rejOrder>>

\* isMessageValid: <<result, maxMsgTimeStampMs, rejectedFormatMessages,
\* rejectedOutOfOrderMessages>> after the call
IsMessageValid(msg, maxTs, rejFormat, rejOrder, clock) ==
    IF msg.timestampMs = 0
    THEN <<FALSE, maxTs, rejFormat + 1, rejOrder>>
    ELSE IF maxTs > msg.timestampMs
    THEN <<FALSE, maxTs, rejFormat, rejOrder + 1>>
    ELSE IF msg.timestampMs < clock - MAX_MSG_AGE_SEC * 1000
    THEN <<FALSE, msg.timestampMs, rejFormat, rejOrder + 1>>
    ELSE <<TRUE, msg.timestampMs, rejFormat, rejOrder>>

\* the save truncating only a history that has grown past the limit
SaveMessageLate(history, message, limit) ==
    IF Len(history) > limit
    THEN Append(SubSeq(history, (Len(history) \div 10) + 1, Len(history)), message)
    ELSE Append(history, message)

\* splice(0, length / 10) followed by push
SaveMessage(history, message, limit) ==
    IF Len(history) >= limit
    THEN Append(SubSeq(history, (Len(history) \div 10) + 1, Len(history)), message)
    ELSE Append(history, message)

\* saveInboundMessage
SaveInboundMessage(history, message) == SaveMessage(history, message, MAX_INBOUND_HISTORY)

\* saveOutboundMessage
SaveOutboundMessage(history, message) == SaveMessage(history, message, MAX_OUTBOUND_HISTORY)

\* publishCommand up to the call of command_topic.publish: the calls in flight
PublishCommand(calls, command) ==
    IF command = NoCommand THEN calls ELSE Append(calls, command[1])

\* the callback without its test of the mode
HandleResponseAlwaysPublishing(response) ==
    /\ publishing' = PublishCommand(publishing, response)
    /\ UNCHANGED nextDrivingCommand

\* the callback of nextMove(data).then in inboudMessageHandler
HandleResponse(response) ==
    IF currentDrivingMode # DEBUG_MODE
    THEN /\ publishing' = PublishCommand(publishing, response)
         /\ UNCHANGED nextDrivingCommand
    ELSE /\ nextDrivingCommand' = response
         /\ UNCHANGED publishing

RemoveAt(s, i) == SubSeq(s, 1, i - 1) \o SubSeq(s, i + 1, Len(s))

Op(name, result) == [op |-> name, result |-> result]

\* inboudMessageHandler, with the synchronous start of nextMove
InboudMessageHandler(msg) ==
    LET v == IsMessageValid(msg, maxMsgTimeStampMs, rejectedFormatMessages,
                            rejectedOutOfOrderMessages, now)
        branch == NextMoveBranch(commandHistory, msg)
    IN  /\ listenerStatus
        /\ totalMessagesReceived' = totalMessagesReceived + 1
        /\ maxMsgTimeStampMs' = v[2]
        /\ rejectedFormatMessages' = v[3]
        /\ rejectedOutOfOrderMessages' = v[4]
        /\ IF ~v[1]
           THEN /\ totalErrors' = totalErrors + 1
                /\ lastOp' = Op("rejected", NoCommand)
                /\ UNCHANGED <<inboundMsgHistory, decisions, publishing, nextDrivingCommand>>
           ELSE /\ inboundMsgHistory' = SaveInboundMessage(inboundMsgHistory, msg)
                /\ UNCHANGED totalErrors
                /\ IF currentDrivingMode = MANUAL_MODE
                   THEN /\ lastOp' = Op("ignored", NoCommand)
                        /\ UNCHANGED <<decisions, publishing, nextDrivingCommand>>
                   ELSE CASE branch = "throw" ->
                               /\ lastOp' = Op("throw", NoCommand)
                               /\ UNCHANGED <<decisions, publishing, nextDrivingCommand>>
                          [] branch = "end" ->
                               /\ lastOp' = Op("end", Returned(GameOver(msg)))
                               /\ HandleResponse(Returned(GameOver(msg)))
                               /\ UNCHANGED decisions
                          \* navigate2ball in simulation mode answers at once
                          [] branch = "ball" /\ simulate ->
                               \E command \in SimulatedCommands :
                                   /\ lastOp' = Op("simulated", Returned(command))
                                   /\ HandleResponse(Returned(command))
                                   /\ UNCHANGED decisions
                          [] OTHER ->
                               /\ lastOp' = Op(branch, NoCommand)
                               /\ decisions' = Append(decisions,
                                                      [msg |-> msg, objective |-> branch])
                               /\ UNCHANGED <<publishing, nextDrivingCommand>>
        /\ UNCHANGED <<currentDrivingMode, outboundMsgHistory, commandHistory, sameArray,
                       totalMessagesSent, listenerStatus, ballColor, now, simulate>>

\* the promise of the i-th waiting nextMove call settles with response (Thrown
\* when it is rejected: nothing catches the rejection); on a command the
\* handler's callback runs
Settle(i, response, name) ==
    /\ i \in 1..Len(decisions)
    /\ decisions' = RemoveAt(decisions, i)
    /\ lastOp' = Op(name, response)
    /\ IF response = Thrown
       THEN UNCHANGED <<publishing, nextDrivingCommand>>
       ELSE HandleResponse(response)
    /\ UNCHANGED <<currentDrivingMode, outboundMsgHistory, commandHistory, sameArray,
                   inboundMsgHistory, totalMessagesReceived, rejectedOutOfOrderMessages,
                   rejectedFormatMessages, totalMessagesSent, totalErrors,
                   maxMsgTimeStampMs, listenerStatus, ballColor, now, simulate>>

\* what navigate2ball / navigate2home make of the answer bBoxes for decision d
Navigate(d, bBoxes, r1, r2) ==
    IF d.objective = "home"
    THEN Navigate2home(commandHistory, d.msg, bBoxes, r1)
    ELSE Navigate2ball(commandHistory, d.msg, bBoxes, r1, r2)

\* the decision appending its own command to the history
RecognizeObjectsDoneSaving(i, bBoxes, r1, r2) ==
    LET response == Navigate(decisions[i], bBoxes, r1, r2)
    IN  /\ i \in 1..Len(decisions)
        /\ decisions' = RemoveAt(decisions, i)
        /\ lastOp' = Op("decided", response)
        /\ IF response = Thrown
           THEN UNCHANGED <<publishing, nextDrivingCommand, outboundMsgHistory,
                            commandHistory>>
           ELSE /\ HandleResponse(response)
                /\ outboundMsgHistory' = Append(outboundMsgHistory, response[1])
                /\ commandHistory' = outboundMsgHistory'
        /\ UNCHANGED <<currentDrivingMode, sameArray, inboundMsgHistory,
                       totalMessagesReceived, rejectedOutOfOrderMessages,
                       rejectedFormatMessages, totalMessagesSent, totalErrors,
                       maxMsgTimeStampMs, listenerStatus, ballColor, now, simulate>>

\* recognizeObjects answers the i-th waiting decision with bBoxes; the rest of
\* navigate2ball / navigate2home and the handler's callback run
RecognizeObjectsDone(i, bBoxes, r1, r2) ==
    /\ i \in 1..Len(decisions)
    /\ Settle(i, Navigate(decisions[i], bBoxes, r1, r2), "decided")

\* a failed recognizeObjects taken for an answer without objects
RecognizeObjectsFailedAsEmpty(i) ==
    /\ i \in 1..Len(decisions)
    /\ \E r1, r2 \in {500} :
          Settle(i, Navigate(decisions[i], << >>, r1, r2), "perceptionFailed")

\* recognizeObjects fails for the i-th waiting decision: the promise is rejected
RecognizeObjectsFailed(i) == Settle(i, Thrown, "perceptionFailed")

\* the callback of command_topic.publish for the i-th call in flight, without error
PublishSucceeded(i) ==
    /\ i \in 1..Len(publishing)
    /\ publishing' = RemoveAt(publishing, i)
    /\ totalMessagesSent' = totalMessagesSent + 1
    /\ outboundMsgHistory' = SaveOutboundMessage(outboundMsgHistory, publishing[i])
    /\ commandHistory' = IF sameArray THEN outboundMsgHistory' ELSE commandHistory
    /\ lastOp' = Op("published", Returned(publishing[i]))
    /\ UNCHANGED <<currentDrivingMode, sameArray, nextDrivingCommand, inboundMsgHistory,
                   totalMessagesReceived, rejectedOutOfOrderMessages,
                   rejectedFormatMessages, totalErrors, maxMsgTimeStampMs, listenerStatus,
                   ballColor, now, decisions, simulate>>

\* the callback with err, without its return
PublishFailedFallingThrough(i) ==
    /\ i \in 1..Len(publishing)
    /\ publishing' = RemoveAt(publishing, i)
    /\ totalErrors' = totalErrors + 1
    /\ totalMessagesSent' = totalMessagesSent + 1
    /\ outboundMsgHistory' = SaveOutboundMessage(outboundMsgHistory, publishing[i])
    /\ commandHistory' = IF sameArray THEN outboundMsgHistory' ELSE commandHistory
    /\ lastOp' = Op("publishFailed", Returned(publishing[i]))
    /\ UNCHANGED <<currentDrivingMode, sameArray, nextDrivingCommand, inboundMsgHistory,
                   totalMessagesReceived, rejectedOutOfOrderMessages,
                   rejectedFormatMessages, maxMsgTimeStampMs, listenerStatus, ballColor,
                   now, decisions, simulate>>

\* the callback with err publishing the command again
PublishFailedRetrying(i) ==
    /\ i \in 1..Len(publishing)
    /\ publishing' = Append(RemoveAt(publishing, i), publishing[i])
    /\ totalErrors' = totalErrors + 1
    /\ lastOp' = Op("publishFailed", Returned(publishing[i]))
    /\ UNCHANGED <<currentDrivingMode, outboundMsgHistory, commandHistory, sameArray,
                   nextDrivingCommand, inboundMsgHistory, totalMessagesReceived,
                   rejectedOutOfOrderMessages, rejectedFormatMessages, totalMessagesSent,
                   maxMsgTimeStampMs, listenerStatus, ballColor, now, decisions, simulate>>

\* the callback of command_topic.publish for the i-th call in flight, with err
PublishFailed(i) ==
    /\ i \in 1..Len(publishing)
    /\ publishing' = RemoveAt(publishing, i)
    /\ totalErrors' = totalErrors + 1
    /\ lastOp' = Op("publishFailed", Returned(publishing[i]))
    /\ UNCHANGED <<currentDrivingMode, outboundMsgHistory, commandHistory, sameArray,
                   nextDrivingCommand, inboundMsgHistory, totalMessagesReceived,
                   rejectedOutOfOrderMessages, rejectedFormatMessages, totalMessagesSent,
                   maxMsgTimeStampMs, listenerStatus, ballColor, now, decisions, simulate>>

\* POST /color_change_submit; color is << >> when the form carries no ball_color
ColorChangeSubmit(color) ==
    /\ IF color # << >>
       THEN /\ ballColor' = color[1]
            /\ publishing' = PublishCommand(publishing,
                                 Returned(SetColor(NewDriveMessage, color[1])))
       ELSE UNCHANGED <<ballColor, publishing>>
    /\ lastOp' = Op("color_change_submit", NoCommand)
    /\ UNCHANGED <<currentDrivingMode, outboundMsgHistory, commandHistory, sameArray,
                   nextDrivingCommand, inboundMsgHistory, totalMessagesReceived,
                   rejectedOutOfOrderMessages, rejectedFormatMessages, totalMessagesSent,
                   totalErrors, maxMsgTimeStampMs, listenerStatus, now, decisions, simulate>>

\* POST /debug_submit with the button pressed: "refresh", "next_sensor_message"
\* or "send_command"
DebugSubmit(button) ==
    /\ CASE button = "refresh" ->
              UNCHANGED <<publishing, nextDrivingCommand>>
         [] button = "next_sensor_message" ->
              /\ publishing' = PublishCommand(publishing,
                     Returned(SendSensorMessage(SetMode(NewDriveMessage, DEBUG_MODE))))
              /\ UNCHANGED nextDrivingCommand
         [] OTHER ->
              LET command == IF nextDrivingCommand = NoCommand
                             THEN NewDriveMessage
                             ELSE nextDrivingCommand[1]
              IN  /\ nextDrivingCommand' = NoCommand
                  /\ publishing' = PublishCommand(publishing,
                         Returned(SetOnDemandSensorRate(SetMode(command, DEBUG_MODE))))
    /\ lastOp' = Op(button, nextDrivingCommand)
    /\ UNCHANGED <<currentDrivingMode, outboundMsgHistory, commandHistory, sameArray,
                   inboundMsgHistory, totalMessagesReceived, rejectedOutOfOrderMessages,
                   rejectedFormatMessages, totalMessagesSent, totalErrors,
                   maxMsgTimeStampMs, listenerStatus, ballColor, now, decisions, simulate>>

\* GET /debugger_on
DebuggerOn ==
    /\ listenerStatus' = TRUE
    /\ currentDrivingMode' = DEBUG_MODE
    /\ publishing' = PublishCommand(publishing,
           Returned(SetOnDemandSensorRate(SetMode(NewDriveMessage, DEBUG_MODE))))
    /\ lastOp' = Op("debugger_on", NoCommand)
    /\ UNCHANGED <<outboundMsgHistory, commandHistory, sameArray, nextDrivingCommand,
                   inboundMsgHistory, totalMessagesReceived, rejectedOutOfOrderMessages,
                   rejectedFormatMessages, totalMessagesSent, totalErrors,
                   maxMsgTimeStampMs, ballColor, now, decisions, simulate>>

\* GET /self_driving_mode
SelfDrivingMode ==
    /\ listenerStatus' = TRUE
    /\ currentDrivingMode' = AUTOMATIC_MODE
    /\ publishing' = PublishCommand(publishing,
           Returned(SendSensorMessage(GripperClose(SetOnDemandSensorRate(
               SetMode(NewDriveMessage, AUTOMATIC_MODE))))))
    /\ lastOp' = Op("self_driving_mode", NoCommand)
    /\ UNCHANGED <<outboundMsgHistory, commandHistory, sameArray, nextDrivingCommand,
                   inboundMsgHistory, totalMessagesReceived, rejectedOutOfOrderMessages,
                   rejectedFormatMessages, totalMessagesSent, totalErrors,
                   maxMsgTimeStampMs, ballColor, now, decisions, simulate>>

\* GET /manual_mode
ManualMode ==
    /\ currentDrivingMode' = MANUAL_MODE
    /\ publishing' = PublishCommand(publishing,
           Returned(SendSensorMessage(SetMode(NewDriveMessage, MANUAL_MODE))))
    /\ lastOp' = Op("manual_mode", NoCommand)
    /\ UNCHANGED <<outboundMsgHistory, commandHistory, sameArray, nextDrivingCommand,
                   inboundMsgHistory, totalMessagesReceived, rejectedOutOfOrderMessages,
                   rejectedFormatMessages, totalMessagesSent, totalErrors,
                   maxMsgTimeStampMs, listenerStatus, ballColor, now, decisions, simulate>>

\* POST /manual_control_action; command is what manualCommand(req) returns
ManualControlAction(command) ==
    /\ publishing' = PublishCommand(publishing, command)
    /\ lastOp' = Op("manual_control_action", NoCommand)
    /\ UNCHANGED <<currentDrivingMode, outboundMsgHistory, commandHistory, sameArray,
                   nextDrivingCommand, inboundMsgHistory, totalMessagesReceived,
                   rejectedOutOfOrderMessages, rejectedFormatMessages, totalMessagesSent,
                   totalErrors, maxMsgTimeStampMs, listenerStatus, ballColor, now,
                   decisions, simulate>>

\* reset(): the counters go back to zero and the globals inboundMsgHistory and
\* outboundMsgHistory are bound to new empty arrays; navigation keeps the array
\* it was constructed with
ResetState ==
    /\ totalMessagesReceived' = 0
    /\ rejectedOutOfOrderMessages' = 0
    /\ rejectedFormatMessages' = 0
    /\ totalMessagesSent' = 0
    /\ totalErrors' = 0
    /\ nextDrivingCommand' = NoCommand
    /\ inboundMsgHistory' = << >>
    /\ outboundMsgHistory' = << >>
    /\ sameArray' = FALSE
    /\ maxMsgTimeStampMs' = now
    /\ UNCHANGED <<commandHistory, currentDrivingMode, ballColor, now, decisions,
                   publishing, simulate>>

\* GET /reset
Reset ==
    /\ ResetState
    /\ lastOp' = Op("reset", NoCommand)
    /\ UNCHANGED listenerStatus

\* GET /start
Start ==
    /\ ResetState
    /\ listenerStatus' = TRUE
    /\ lastOp' = Op("start", NoCommand)

\* the wall clock advances by ms milliseconds
Tick(ms) ==
    /\ now' = now + ms
    /\ lastOp' = Op("tick", NoCommand)
    /\ UNCHANGED <<currentDrivingMode, outboundMsgHistory, commandHistory, sameArray,
                   nextDrivingCommand, inboundMsgHistory, totalMessagesReceived,
                   rejectedOutOfOrderMessages, rejectedFormatMessages, totalMessagesSent,
                   totalErrors, maxMsgTimeStampMs, listenerStatus, ballColor, decisions,
                   publishing, simulate>>

----------------------------------------------------------------------------
(* The controller with its environment: the car's sensor messages, the     *)
(* inference service, the Pub/Sub callbacks and the operator's requests.   *)

StartTime == 100000
MaxReceived == 3
MaxInFlight == 2
MaxErrors == 1
MaxOutbound == MaxReceived + 1
MaxDebugReceived == 2
MaxResetReceived == 1
MaxSearchReceived == 6
MaxInboundReceived == 3
MaxTicks == 1
MaxEngineReceived == 3
MaxObstacleReceived == 8

Observation(ts, balls, obstacle) ==
    [timestampMs |-> ts, hasCarState |-> TRUE, ballsCollected |-> balls,
     color |-> "red", obstacleFound |-> obstacle]

NoCarState(ts) ==
    [timestampMs |-> ts, hasCarState |-> FALSE, ballsCollected |-> 0,
     color |-> "red", obstacleFound |-> FALSE]

BBox(label, score, x, y, w, h) ==
    [label |-> label, score |-> score, x |-> x, y |-> y, w |-> w, h |-> h]

RedBall == <<"red", "ball">>
BlueBall == <<"blue", "ball">>
RedHome == <<"red", "home">>

BallInGrip == BBox(RedBall, 90, 150, 300, 700, 700)
BallNear == BBox(RedBall, 90, 350, 300, 300, 300)
BallFar == BBox(RedBall, 90, 450, 300, 100, 100)
HomeNear == BBox(RedHome, 90, 350, 300, 300, 300)
HomeFar == BBox(RedHome, 90, 450, 300, 100, 100)

BallAside == BBox(RedBall, 90, 100, 300, 100, 100)
BallNearAside == BBox(RedBall, 90, 600, 300, 300, 300)
HomeAside == BBox(RedHome, 90, 100, 300, 100, 100)

SensorMessages == {Observation(StartTime, b, FALSE) : b \in {0, BALLS_NEEDED}}

VisionResponses == {<< >>, <<BallInGrip>>, <<HomeNear>>}

RandomDraws == {500}

ManualCommands == {NoCommand, Returned(Drive(SetMode(NewDriveMessage, MANUAL_MODE), 100))}

FormColors == {<< >>, <<"Blue">>}

Init ==
    /\ currentDrivingMode = MANUAL_MODE
    /\ outboundMsgHistory = << >>
    /\ commandHistory = << >>
    /\ sameArray = TRUE
    /\ nextDrivingCommand = NoCommand
    /\ inboundMsgHistory = << >>
    /\ totalMessagesReceived = 0
    /\ rejectedOutOfOrderMessages = 0
    /\ rejectedFormatMessages = 0
    /\ totalMessagesSent = 0
    /\ totalErrors = 0
    /\ maxMsgTimeStampMs = 0
    /\ listenerStatus = TRUE
    /\ ballColor = "red"
    /\ now = StartTime
    /\ decisions = << >>
    /\ publishing = << >>
    /\ simulate = FALSE
    /\ lastOp = Op("listen", NoCommand)

\* the controller started with the simulation engine on
InitSimulation ==
    /\ currentDrivingMode = MANUAL_MODE
    /\ outboundMsgHistory = << >>
    /\ commandHistory = << >>
    /\ sameArray = TRUE
    /\ nextDrivingCommand = NoCommand
    /\ inboundMsgHistory = << >>
    /\ totalMessagesReceived = 0
    /\ rejectedOutOfOrderMessages = 0
    /\ rejectedFormatMessages = 0
    /\ totalMessagesSent = 0
    /\ totalErrors = 0
    /\ maxMsgTimeStampMs = 0
    /\ listenerStatus = TRUE
    /\ ballColor = "red"
    /\ now = StartTime
    /\ decisions = << >>
    /\ publishing = << >>
    /\ simulate = TRUE
    /\ lastOp = Op("listen", NoCommand)

\* the calls waiting for the inference service or for Pub/Sub
InFlight == Len(decisions) + Len(publishing)

ReceiveFrom(messages, maxReceived) ==
    \E msg \in messages :
        /\ totalMessagesReceived < maxReceived
        /\ InFlight < MaxInFlight
        /\ InboudMessageHandler(msg)

Receive(maxReceived) == ReceiveFrom(SensorMessages, maxReceived)

RecognizedAs(responses) ==
    \E i \in 1..Len(decisions), bBoxes \in responses, r1, r2 \in RandomDraws :
        RecognizeObjectsDone(i, bBoxes, r1, r2)

Recognized == RecognizedAs(VisionResponses)

RecognitionFailed == \E i \in 1..Len(decisions) : RecognizeObjectsFailed(i)

Publish(maxOutbound) ==
    \E i \in 1..Len(publishing) :
        /\ Len(outboundMsgHistory) < maxOutbound
        /\ PublishSucceeded(i)

NotPublished ==
    \E i \in 1..Len(publishing) :
        /\ totalErrors < MaxErrors
        /\ PublishFailed(i)

ReceiveSensorMessage == Receive(MaxReceived)
Published == Publish(MaxOutbound)

\* The car driving itself: sensor messages, inference and publishing, after
\* the operator has switched to self-driving mode
Next ==
    \/ ReceiveSensorMessage
    \/ Recognized
    \/ RecognitionFailed
    \/ Published
    \/ NotPublished
    \/ InFlight < MaxInFlight /\ SelfDrivingMode

Spec == Init /\ [][Next]_vars

\* The operator also switches back to manual mode and drives by hand
NextManual ==
    \/ ReceiveSensorMessage
    \/ Recognized
    \/ RecognitionFailed
    \/ Published
    \/ NotPublished
    \/ InFlight < MaxInFlight /\ SelfDrivingMode
    \/ InFlight < MaxInFlight /\ ManualMode
    \/ \E command \in ManualCommands :
          InFlight < MaxInFlight /\ ManualControlAction(command)

SpecManual == Init /\ [][NextManual]_vars

\* The operator uses the debugger
NextDebug ==
    \/ Receive(MaxDebugReceived)
    \/ Recognized
    \/ RecognitionFailed
    \/ Publish(MaxDebugReceived + 1)
    \/ NotPublished
    \/ InFlight < MaxInFlight /\ DebuggerOn
    \/ \E button \in {"refresh", "next_sensor_message", "send_command"} :
          InFlight < MaxInFlight /\ DebugSubmit(button)

SpecDebug == Init /\ [][NextDebug]_vars

\* The operator resets the statistics and restarts the listener
NextReset ==
    \/ Receive(MaxResetReceived)
    \/ Recognized
    \/ RecognitionFailed
    \/ Publish(MaxResetReceived + 1)
    \/ NotPublished
    \/ InFlight < MaxInFlight /\ SelfDrivingMode
    \/ Reset
    \/ Start

SpecReset == Init /\ [][NextReset]_vars

\* The car searching an empty field: no picture ever shows a ball or a base
NextSearch ==
    \/ ReceiveFrom({Observation(StartTime, 0, FALSE)}, MaxSearchReceived)
    \/ RecognizedAs({<< >>})
    \/ Publish(MaxSearchReceived + 1)
    \/ currentDrivingMode = MANUAL_MODE /\ SelfDrivingMode

SpecSearch == Init /\ [][NextSearch]_vars

\* The car's messages on their way in: without a timestamp, without the car's
\* state, old, out of order, repeated; the clock advances between them
InboundMessages ==
    {Observation(ts, 0, FALSE) :
        ts \in {0, StartTime - 61000, StartTime - 60000, StartTime - 1000, StartTime}}
    \cup {NoCarState(StartTime)}

NextInbound ==
    \/ ReceiveFrom(InboundMessages, MaxInboundReceived)
    \/ RecognizedAs({<< >>})
    \/ Publish(MaxInboundReceived + 1)
    \/ currentDrivingMode = MANUAL_MODE /\ SelfDrivingMode
    \/ now < StartTime + MaxTicks * 1000 /\ Tick(1000)

SpecInbound == Init /\ [][NextInbound]_vars

\* The car driving itself with one decision at a time (the car sends its next
\* sensor message after acting on a command): balls and the base at several
\* distances and angles, with and without an obstacle ahead
EngineMessages == {Observation(StartTime, 0, o) : o \in BOOLEAN}

EngineResponses ==
    {<< >>, <<BallInGrip>>, <<BallNear>>, <<BallNearAside>>, <<BallFar>>, <<BallAside>>,
     <<HomeNear>>, <<HomeFar>>, <<HomeAside>>}

NextEngine ==
    \/ InFlight = 0 /\ ReceiveFrom(EngineMessages, MaxEngineReceived)
    \/ RecognizedAs(EngineResponses)
    \/ Publish(MaxEngineReceived + 1)
    \/ NotPublished
    \/ currentDrivingMode = MANUAL_MODE /\ SelfDrivingMode

SpecEngine == Init /\ [][NextEngine]_vars

\* The car driving itself with an obstacle ahead all the time: every picture
\* shows the base far away and a ball, in the gripper or far away
ObstacleMessages == {Observation(StartTime, 0, TRUE)}

ObstacleResponses == {<<BallInGrip, HomeFar>>, <<BallFar, HomeFar>>}

NextObstacle ==
    \/ InFlight = 0 /\ ReceiveFrom(ObstacleMessages, MaxObstacleReceived)
    \/ RecognizedAs(ObstacleResponses)
    \/ Publish(MaxObstacleReceived + 1)
    \/ currentDrivingMode = MANUAL_MODE /\ SelfDrivingMode

SpecObstacle == Init /\ [][NextObstacle]_vars

\* The car scouting a field where it rarely sees what it looks for: pictures
\* without objects, with a ball of another colour, with a faint ball high in
\* the picture, with the base only, with the ball in the gripper; the random
\* source gives its smallest, its largest and the sign-changing value
MaxScoutReceived == 8

BallOfOtherColor == BBox(BlueBall, 90, 450, 300, 100, 100)
BallHighFaint == BBox(RedBall, 49, 450, 199, 100, 100)

ScoutMessages == {Observation(StartTime, 0, FALSE)}

ScoutResponses ==
    {<< >>, <<BallOfOtherColor>>, <<BallHighFaint>>, <<HomeFar>>, <<BallInGrip>>}

ScoutDraws == {0, 250, 999}

RecognizedDrawing(responses, draws) ==
    \E i \in 1..Len(decisions), bBoxes \in responses, r1, r2 \in draws :
        RecognizeObjectsDone(i, bBoxes, r1, r2)

NextScout ==
    \/ InFlight = 0 /\ ReceiveFrom(ScoutMessages, MaxScoutReceived)
    \/ RecognizedDrawing(ScoutResponses, ScoutDraws)
    \/ Publish(MaxScoutReceived + 1)
    \/ currentDrivingMode = MANUAL_MODE /\ SelfDrivingMode

SpecScout == Init /\ [][NextScout]_vars

\* The end of the run: once a GAME_END command is in the history the car
\* reports all its balls in every further message
MaxFinishReceived == 4

GameEnded == \E k \in 1..Len(commandHistory) : commandHistory[k].goal = GAME_END

FinishMessages ==
    {msg \in SensorMessages : GameEnded => msg.ballsCollected >= BALLS_NEEDED}

NextFinish ==
    \/ ReceiveFrom(FinishMessages, MaxFinishReceived)
    \/ Recognized
    \/ Publish(MaxFinishReceived + 1)
    \/ currentDrivingMode = MANUAL_MODE /\ SelfDrivingMode

SpecFinish == Init /\ [][NextFinish]_vars

\* The car driven by the simulation engine: ball-seeking decisions are
\* answered with the engine's fake commands, the end of the run as ever; the
\* car stamps its messages with two different times
MaxSimulationReceived == 3

SimulationMessages ==
    {Observation(ts, b, FALSE) : ts \in {StartTime - 1000, StartTime},
                                b \in {0, BALLS_NEEDED}}

NextSimulation ==
    \/ ReceiveFrom(SimulationMessages, MaxSimulationReceived)
    \/ Publish(MaxSimulationReceived + 1)
    \/ NotPublished
    \/ currentDrivingMode = MANUAL_MODE /\ SelfDrivingMode

SpecSimulation == InitSimulation /\ [][NextSimulation]_vars

\* The car choosing among the objects of a picture: several balls of the
\* same or of different apparent size, objects of other kinds and colours
\* beside them, faint balls high and low in the picture
MaxSelectReceived == 3

BallFaintBig == BBox(RedBall, 40, 150, 300, 700, 700)
BallHighFaintBig == BBox(RedBall, 49, 150, 199, 700, 700)
BallLowFaint == BBox(RedBall, 49, 700, 200, 100, 100)
BallHighSure == BBox(RedBall, 50, 200, 199, 100, 100)
HomeHighFaint == BBox(RedHome, 49, 450, 199, 100, 100)

SelectMessages == {Observation(StartTime, 0, FALSE)}

SelectResponses ==
    {<< >>, <<BallInGrip>>,
     <<BallAside, BallFar>>, <<BallFar, BallAside>>,
     <<BallFar, BallNear>>, <<BallNear, BallFar>>,
     <<BallFaintBig, BallNear>>,
     <<HomeNear, BallOfOtherColor, BallFar>>,
     <<BallHighFaint>>, <<BallHighFaintBig, BallFar>>,
     <<BallLowFaint>>, <<BallHighSure>>,
     <<HomeAside, HomeFar>>, <<HomeHighFaint, BallHighFaint>>}

NextSelect ==
    \/ InFlight = 0 /\ ReceiveFrom(SelectMessages, MaxSelectReceived)
    \/ RecognizedAs(SelectResponses)
    \/ Publish(MaxSelectReceived + 1)
    \/ currentDrivingMode = MANUAL_MODE /\ SelfDrivingMode

SpecSelect == Init /\ [][NextSelect]_vars

\* The car measuring what it sees: balls and bases just below and just above
\* the two bounds of the distance correction, balls at the centre of the
\* picture and slightly and far off it
MaxGeometryReceived == 3

BallBelow95 == BBox(RedBall, 90, 800, 300, 100, 696)
BallAt95 == BBox(RedBall, 90, 800, 300, 100, 695)
BallBelow325 == BBox(RedBall, 90, 800, 300, 100, 204)
BallAt325 == BBox(RedBall, 90, 800, 300, 100, 203)
HomeBelow325 == BBox(RedHome, 90, 450, 300, 100, 678)
HomeAt325 == BBox(RedHome, 90, 450, 300, 100, 677)
BallJustRight == BBox(RedBall, 90, 455, 300, 100, 100)
BallJustLeft == BBox(RedBall, 90, 445, 300, 100, 100)
BallRight == BBox(RedBall, 90, 461, 300, 100, 100)
BallLeft == BBox(RedBall, 90, 439, 300, 100, 100)

GeometryBoxes ==
    {BallInGrip, BallBelow95, BallAt95, BallBelow325, BallAt325, HomeBelow325, HomeAt325,
     HomeFar, HomeAside, BallFar, BallAside, BallJustRight, BallJustLeft, BallRight,
     BallLeft}

GeometryResponses == {<<b>> : b \in GeometryBoxes}

NextGeometry ==
    \/ InFlight = 0 /\ ReceiveFrom(ScoutMessages, MaxGeometryReceived)
    \/ RecognizedAs(GeometryResponses)
    \/ Publish(MaxGeometryReceived + 1)
    \/ currentDrivingMode = MANUAL_MODE /\ SelfDrivingMode

SpecGeometry == Init /\ [][NextGeometry]_vars

----------------------------------------------------------------------------
\* A search that finds nothing: the ball is in the picture at the start of the
\* run only, early enough to take it and turn to the base, and after that no
\* picture shows a ball or a base. Every command is published and appended
\* before the next sensor message, and the event loop keeps running its
\* callbacks as long as the car keeps sending.
MaxPatrolReceived == 15

PatrolDraws == {0, 999}

BallSeenEarly ==
    /\ Len(outboundMsgHistory) \in 1..2
    /\ RecognizedDrawing({<<BallInGrip>>}, PatrolDraws)

NothingSeen == RecognizedDrawing({<< >>}, PatrolDraws)

NextPatrol ==
    \/ InFlight = 0 /\ ReceiveFrom(ScoutMessages, MaxPatrolReceived)
    \/ BallSeenEarly
    \/ NothingSeen
    \/ Publish(MaxPatrolReceived + 1)
    \/ currentDrivingMode = MANUAL_MODE /\ SelfDrivingMode

SpecPatrol == Init /\ [][NextPatrol]_vars /\ WF_vars(NextPatrol)

----------------------------------------------------------------------------
\* The way to the base and back: the ball in the gripper, the base near, or
\* nothing in the picture, with up to MaxInFlight calls pending
MaxReleaseReceived == 5

ReleaseResponses == {<< >>, <<BallInGrip>>, <<HomeNear>>}

NextRelease ==
    \/ ReceiveFrom(ScoutMessages, MaxReleaseReceived)
    \/ RecognizedAs(ReleaseResponses)
    \/ Publish(MaxReleaseReceived + 1)
    \/ currentDrivingMode = MANUAL_MODE /\ SelfDrivingMode

SpecRelease == Init /\ [][NextRelease]_vars

----------------------------------------------------------------------------
\* The end of a long run: the car has been searching for the ball for an hour
\* with nothing in the picture, one decision at a time and every command
\* published, so that the history of sensor messages is two entries below its
\* limit and the history of commands, which holds the command of
\* /self_driving_mode as well, one entry; the car's messages carry increasing
\* timestamps. From there on the ball may
\* appear, calls may overlap and a publish may fail.
MaxHistoryReceived == 3

LongRunLength == MAX_INBOUND_HISTORY - 2

\* the k-th command of the long run: the command of /self_driving_mode, then
\* the search's answer to the (k-1)-th sensor message, five turns and a
\* relocation in turn
LongRunCommand(k) ==
    IF k = 1
    THEN SendSensorMessage(GripperClose(SetOnDemandSensorRate(
             SetMode(NewDriveMessage, AUTOMATIC_MODE))))
    ELSE Navigate2ball([j \in 1..((k - 2) % 6) |-> SetGoal(NewDriveMessage, SEEK_BALL_TURN)],
                       Observation(StartTime + k - 1, 0, FALSE), << >>, 500, 500)[1]

InitLongRun ==
    /\ currentDrivingMode = AUTOMATIC_MODE
    /\ outboundMsgHistory = [k \in 1..(LongRunLength + 1) |-> LongRunCommand(k)]
    /\ commandHistory = outboundMsgHistory
    /\ sameArray = TRUE
    /\ nextDrivingCommand = NoCommand
    /\ inboundMsgHistory = [k \in 1..LongRunLength |-> Observation(StartTime + k, 0, FALSE)]
    /\ totalMessagesReceived = LongRunLength
    /\ rejectedOutOfOrderMessages = 0
    /\ rejectedFormatMessages = 0
    /\ totalMessagesSent = LongRunLength + 1
    /\ totalErrors = 0
    /\ maxMsgTimeStampMs = StartTime + LongRunLength
    /\ listenerStatus = TRUE
    /\ ballColor = "red"
    /\ now = StartTime
    /\ decisions = << >>
    /\ publishing = << >>
    /\ simulate = FALSE
    /\ lastOp = Op("published", Returned(LongRunCommand(LongRunLength + 1)))

NextHistory ==
    \/ ReceiveFrom({Observation(StartTime + totalMessagesReceived + 1, 0, FALSE)},
                   LongRunLength + MaxHistoryReceived)
    \/ RecognizedAs({<< >>, <<BallInGrip>>})
    \/ Publish(MAX_OUTBOUND_HISTORY + 1)
    \/ NotPublished

SpecHistory == InitLongRun /\ [][NextHistory]_vars

----------------------------------------------------------------------------
\* The car's messages on their way in, one at a time, while the operator
\* changes the mode before the first command is sent (each change publishes
\* a command) and resets the controller once
MaxAccountingReceived == 3

NextAccounting ==
    \/ InFlight = 0 /\ ReceiveFrom(InboundMessages, MaxAccountingReceived)
    \/ RecognizedAs({<< >>})
    \/ Publish(MaxAccountingReceived + 1)
    \/ InFlight = 0 /\ totalMessagesSent = 0 /\ SelfDrivingMode
    \/ InFlight = 0 /\ totalMessagesSent = 0 /\ DebuggerOn
    \/ InFlight = 0 /\ totalMessagesSent = 0 /\ ManualMode
    \/ sameArray /\ Reset
    \/ now < StartTime + MaxTicks * 1000 /\ Tick(1000)

SpecAccounting == Init /\ [][NextAccounting]_vars

----------------------------------------------------------------------------
(* Properties *)

Last(h) == h[Len(h)]

\* the handler has just started the engine on the message it saved last
EngineStarted == lastOp.op \in {"home", "ball", "end", "throw"}

HomeGoals == {GO2BASE, SEEK_HOME_TURN}

\* C1: nextMove picks the objective in a fixed order: return-to-base when the
\* newest command of the history is tagged GO_TO_BASE or SEEK_HOME_TURN,
\* whatever the ball count; else ball-seeking when fewer balls than needed are
\* carried; else the end-of-run command.  Exactly one of the three is taken:
\* a waiting home decision, a waiting ball decision, or a GAME_END command.
C1_ObjectivePriority ==
    (EngineStarted /\ Last(inboundMsgHistory).hasCarState) =>
        LET msg == Last(inboundMsgHistory)
            expected ==
                IF commandHistory # << >> /\ Last(commandHistory).goal \in HomeGoals
                THEN "home"
                ELSE IF msg.ballsCollected < BALLS_NEEDED THEN "ball" ELSE "end"
        IN  /\ lastOp.op = expected
            /\ lastOp.op \in {"home", "ball"} =>
                   /\ lastOp.result = NoCommand
                   /\ decisions # << >>
                   /\ Last(decisions) = [msg |-> msg, objective |-> expected]
            /\ lastOp.op = "end" =>
                   /\ lastOp.result # NoCommand
                   /\ lastOp.result[1].goal = GAME_END
                   /\ publishing # << >>
                   /\ Last(publishing) = lastOp.result[1]

\* return-to-base is chosen although the car carries all the balls it needs
C1_Witness ==
    /\ lastOp.op = "home"
    /\ Last(inboundMsgHistory).ballsCollected >= BALLS_NEEDED
    /\ Last(commandHistory).goal = GO2BASE

\* the release command of calculateHomeDirections: tagged GO_TO_BALL, with the
\* ball-count increment
IsRelease(command) ==
    /\ command.goal = GO2BALL
    /\ \E k \in 1..Len(command.actions) : command.actions[k][1] = "addBallCount"

\* a home command has been dispatched and no release command after it
Committed(h) ==
    \E i \in 1..Len(h) :
        /\ h[i].goal \in HomeGoals
        /\ \A j \in (i + 1)..Len(h) : ~IsRelease(h[j])

\* C2: return-to-base is a commitment: once a command tagged GO_TO_BASE or
\* SEEK_HOME_TURN has been dispatched, no decision selects ball-seeking or
\* end-of-run before the release command has been dispatched, whatever other
\* commands are published in between.
C2_Commitment ==
    lastOp.op \in {"ball", "end"} => ~Committed(outboundMsgHistory)

\* h holds n consecutive commands tagged goal
HasRun(h, goal, n) ==
    \E i \in 1..(Len(h) - n + 1) : \A j \in i..(i + n - 1) : h[j].goal = goal

\* C3: the dispatched command sequence never contains more than 5 consecutive
\* SEEK_BALL_TURN commands, nor more than 5 consecutive SEEK_HOME_TURN
\* commands, whatever the order in which sensor messages arrive and
\* perception calls and publishes complete.
C3_SeekTurnsBounded ==
    /\ ~HasRun(outboundMsgHistory, SEEK_BALL_TURN, 6)
    /\ ~HasRun(outboundMsgHistory, SEEK_HOME_TURN, 6)

\* C4: the sequence the engine reads (countGoals, the CHECK_GRIP test) is the
\* sequence saveOutboundMessage appends to, also after reset() and /start.
C4_OneCommandHistory == commandHistory = outboundMsgHistory

\* the engine's commands still waiting for the callback of publish (the
\* commands of the operator's routes carry no goal)
EngineCommandsPending == {i \in 1..Len(publishing) : publishing[i].goal # Undefined}

\* C5: no two decisions run interleaved against the history: when a decision
\* starts reading the history, no earlier decision is waiting for perception
\* and no earlier decision's command is waiting to be appended.
C5_DecisionsSerialized ==
    lastOp.op \in {"home", "ball"} =>
        /\ Len(decisions) = 1
        /\ EngineCommandsPending = {}

\* C6: MANUAL mode disables the engine entirely: while the mode is MANUAL no
\* command produced by nextMove is handed to publishCommand, also when the mode
\* was switched to MANUAL while the decision was waiting for perception.
C6_ManualDisablesEngine ==
    ~ /\ currentDrivingMode = MANUAL_MODE
      /\ lastOp.op = "decided"
      /\ lastOp.result # Thrown
      /\ Len(publishing) > 0
      /\ Last(publishing) = lastOp.result[1]

\* a decision has just completed with a command
DecisionCompleted(op) ==
    /\ op.op \in {"decided", "end"}
    /\ op.result # Thrown

DebugStep ==
    /\ (DecisionCompleted(lastOp') /\ currentDrivingMode = DEBUG_MODE) =>
           /\ nextDrivingCommand' = lastOp'.result
           /\ UNCHANGED <<publishing, outboundMsgHistory, commandHistory>>
    /\ lastOp'.op = "send_command" =>
           /\ nextDrivingCommand' = NoCommand
           /\ nextDrivingCommand # NoCommand =>
                  publishing' = Append(publishing,
                      SetOnDemandSensorRate(SetMode(nextDrivingCommand[1], DEBUG_MODE)))
    /\ (/\ currentDrivingMode = DEBUG_MODE
        /\ Len(publishing') > Len(publishing)
        /\ Last(publishing').goal # Undefined) =>
           /\ lastOp'.op = "send_command"
           /\ nextDrivingCommand # NoCommand

\* C7: DEBUG mode defers publishing: a decision completing while the mode is
\* DEBUG is stored as nextDrivingCommand (replacing the stored one) and is
\* neither published nor appended to the history; an engine command is
\* published in DEBUG mode only by the debug form's send-command submit, which
\* clears nextDrivingCommand.
C7_DebugDefersPublishing == [][DebugStep]_vars

\* a stored decision has just been sent from the debug form
C7_Witness ==
    /\ lastOp.op = "send_command"
    /\ lastOp.result # NoCommand
    /\ Len(publishing) > 0
    /\ Last(publishing).goal # Undefined
    /\ nextDrivingCommand = NoCommand

\* the call removed from publishing by this step is call i
Completes(i) ==
    /\ i \in 1..Len(publishing)
    /\ publishing' = RemoveAt(publishing, i)
    /\ lastOp'.result = Returned(publishing[i])

PublishStep ==
    /\ lastOp'.op = "published" =>
           /\ \E i \in 1..Len(publishing) : Completes(i)
           /\ outboundMsgHistory' = Append(outboundMsgHistory, lastOp'.result[1])
    /\ lastOp'.op = "publishFailed" =>
           /\ \E i \in 1..Len(publishing) : Completes(i)
           /\ outboundMsgHistory' = outboundMsgHistory
    /\ outboundMsgHistory' # outboundMsgHistory => lastOp'.op = "published"

\* C8: a command is appended to the command history if and only if its
\* publish completed successfully: the step that completes a publish without
\* error appends that command once, at the end; the step that completes a
\* publish with an error appends nothing; no other step changes the history.
C8_AppendedIffPublished == [][PublishStep]_vars

\* a publish of an engine command has just failed and the history, which holds
\* commands published before, does not end with it
C8_Witness ==
    /\ lastOp.op = "publishFailed"
    /\ lastOp.result[1].goal # Undefined
    /\ Len(outboundMsgHistory) > 0
    /\ Last(outboundMsgHistory) # lastOp.result[1]

EngineOps == {"home", "ball", "end", "throw", "decided", "perceptionFailed"}

\* C9: the engine never mutates the command history: every step of nextMove,
\* from the choice of the objective to the command it resolves with, leaves
\* the history and each of its entries unchanged.
C9_EngineReadsOnly ==
    [][lastOp'.op \in EngineOps => UNCHANGED <<commandHistory, outboundMsgHistory>>]_vars

\* a decision made against a history that holds commands has just produced a
\* command
C9_Witness ==
    /\ lastOp.op = "decided"
    /\ lastOp.result # Thrown
    /\ Len(commandHistory) > 1

\* C10: a perception failure is a decision failure: the step in which
\* recognizeObjects fails ends the decision and publishes nothing, stores
\* nothing as nextDrivingCommand and leaves the history unchanged.
C10_PerceptionFailureFailsDecision ==
    [][lastOp'.op = "perceptionFailed" =>
           /\ lastOp'.result = Thrown
           /\ Len(decisions') = Len(decisions) - 1
           /\ UNCHANGED <<publishing, nextDrivingCommand, commandHistory,
                          outboundMsgHistory>>]_vars

\* recognizeObjects has just failed for a decision
C10_Witness ==
    /\ lastOp.op = "perceptionFailed"
    /\ totalMessagesReceived > 0
    /\ Len(decisions) < totalMessagesReceived

\* C11: an observation without the car's state never yields a command: it
\* is dropped before the engine is invoked, so nextMove never runs (and
\* throws) on one.
C11_IncompleteObservationDropped == lastOp.op # "throw"

\* C12: the timestamps of the admitted observations (the inbound history
\* holds them in the order of their admission) are strictly increasing; a
\* message whose timestamp equals the maximum seen so far is not admitted.
C12_AdmittedStrictlyIncreasing ==
    \A i \in 1..(Len(inboundMsgHistory) - 1) :
        inboundMsgHistory[i].timestampMs < inboundMsgHistory[i + 1].timestampMs

\* the message is older than the freshness window of 60 s
TooOld(msg) == msg.timestampMs # 0 /\ msg.timestampMs < now - 60 * 1000

\* the message is older than one seen before
OutOfOrder(msg) == msg.timestampMs # 0 /\ msg.timestampMs < maxMsgTimeStampMs

\* C13: a message whose timestamp is older than the current time less 60 s is
\* rejected: the handler neither saves it to the inbound history nor hands it
\* to the engine.
C13_OldMessageRejected ==
    [][\A msg \in InboundMessages :
           (InboudMessageHandler(msg) /\ TooOld(msg)) =>
               /\ lastOp'.op = "rejected"
               /\ UNCHANGED <<inboundMsgHistory, decisions, publishing,
                              nextDrivingCommand>>]_vars

\* a message in order but older than the window has just been rejected
C13_Witness ==
    /\ lastOp.op = "rejected"
    /\ maxMsgTimeStampMs # 0
    /\ maxMsgTimeStampMs < now - 60 * 1000
    /\ rejectedOutOfOrderMessages > 0

RejectionCounted(msg) ==
    LET format == rejectedFormatMessages' - rejectedFormatMessages
        order == rejectedOutOfOrderMessages' - rejectedOutOfOrderMessages
    IN  /\ lastOp'.op = "rejected" => format + order = 1
        /\ msg.timestampMs = 0 =>
               lastOp'.op = "rejected" /\ format = 1 /\ order = 0
        /\ (TooOld(msg) \/ OutOfOrder(msg)) =>
               lastOp'.op = "rejected" /\ format = 0 /\ order = 1
        /\ lastOp'.op # "rejected" => format = 0 /\ order = 0

\* C14: every rejected message increments exactly one rejection counter: a
\* message without a timestamp only rejectedFormatMessages, an old or
\* out-of-order message only rejectedOutOfOrderMessages; an admitted message
\* increments neither.
C14_OneRejectionCounter ==
    [][\A msg \in InboundMessages :
           InboudMessageHandler(msg) => RejectionCounted(msg)]_vars

\* one message of each kind has been handled
C14_Witness ==
    /\ rejectedFormatMessages = 1
    /\ rejectedOutOfOrderMessages = 1
    /\ Len(inboundMsgHistory) = 1
    /\ totalMessagesReceived = 3

\* the ball or the base the decision d picks from the answer bBoxes: << >> or
\* <<bBox>>
BallTarget(d, bBoxes) == FindNearestObject(<<d.msg.color>> \o BALL_LABEL_SUFFIX, bBoxes)
HomeTarget(d, bBoxes) == FindNearestObject(<<d.msg.color>> \o HOME_LABEL_SUFFIX, bBoxes)

\* the step is the completion of the i-th ball-seeking decision on an answer
\* that shows a ball
BallFound(i, bBoxes, r1, r2) ==
    /\ RecognizeObjectsDone(i, bBoxes, r1, r2)
    /\ decisions[i].objective = "ball"
    /\ BallTarget(decisions[i], bBoxes) # << >>

\* the step is the completion of the i-th return-to-base decision on an answer
\* that shows the base
HomeFound(i, bBoxes, r1, r2) ==
    /\ RecognizeObjectsDone(i, bBoxes, r1, r2)
    /\ decisions[i].objective = "home"
    /\ HomeTarget(decisions[i], bBoxes) # << >>

BallAngle(d, bBoxes) == FindAngle(BallTarget(d, bBoxes)[1])
BallDistance(d, bBoxes) == FindDistanceMM(BallTarget(d, bBoxes)[1], BALL_SIZE_MM)
HomeDistance(d, bBoxes) == FindDistanceMM(HomeTarget(d, bBoxes)[1], HOME_SIZE_MM)

CaptureCondition(d, bBoxes) ==
    Abs(BallAngle(d, bBoxes)) <= 10 /\ BallDistance(d, bBoxes) <= 70

\* the actions the engine put into command c, before navigate2ball or
\* navigate2home added the request for the next sensor message
EngineActions(c) == SubSeq(c.actions, 1, Len(c.actions) - 1)

FirstCapture(i, bBoxes, r1, r2) ==
    (/\ BallFound(i, bBoxes, r1, r2)
     /\ CaptureCondition(decisions[i], bBoxes)
     /\ (commandHistory = << >> \/ Last(commandHistory).goal # CHECK_GRIP)) =>
        /\ lastOp'.result # Thrown
        /\ lastOp'.result[1].goal = CHECK_GRIP
        /\ EngineActions(lastOp'.result[1]) =
               << <<"gripperClose", 0>>, <<"setSpeed", MAX_SPEED \div 2>>,
                  <<"drive", -250>> >>

\* C15: first capture: for every history, the empty one included, whose most
\* recent command is not tagged CHECK_GRIP, a ball within 10 degrees and 70 mm
\* makes the decision return a command tagged CHECK_GRIP with the actions
\* gripper close, speed MAX_SPEED/2, drive -250; the decision does not fail.
C15_FirstCapture ==
    [][\A i \in 1..Len(decisions), bBoxes \in EngineResponses, r1, r2 \in RandomDraws :
           FirstCapture(i, bBoxes, r1, r2)]_vars

GripVerification(i, bBoxes, r1, r2) ==
    /\ (/\ BallFound(i, bBoxes, r1, r2)
        /\ CaptureCondition(decisions[i], bBoxes)
        /\ commandHistory # << >>
        /\ Last(commandHistory).goal = CHECK_GRIP) =>
           /\ lastOp'.result # Thrown
           /\ lastOp'.result[1].goal = GO2BASE
           /\ EngineActions(lastOp'.result[1]) = << >>
    /\ (/\ RecognizeObjectsDone(i, bBoxes, r1, r2)
        /\ decisions[i].objective = "ball"
        /\ lastOp'.result # Thrown
        /\ lastOp'.result[1].goal = GO2BASE) =>
           /\ commandHistory # << >>
           /\ Last(commandHistory).goal = CHECK_GRIP

\* C16: grip verification: a ball within 10 degrees and 70 mm while the most
\* recent command of the history is tagged CHECK_GRIP makes the decision
\* return a command tagged GO_TO_BASE without any turn, drive, speed or
\* gripper action; a ball-seeking decision returns a GO_TO_BASE command only
\* when the most recent command of the history is tagged CHECK_GRIP.
C16_GripVerification ==
    [][\A i \in 1..Len(decisions), bBoxes \in EngineResponses, r1, r2 \in RandomDraws :
           GripVerification(i, bBoxes, r1, r2)]_vars

\* a ball-seeking decision has just returned GO_TO_BASE after a CHECK_GRIP
C16_Witness ==
    /\ lastOp.op = "decided"
    /\ lastOp.result # Thrown
    /\ lastOp.result[1].goal = GO2BASE
    /\ lastOp.result[1].actions = << <<"sendSensorMessage", 0>> >>
    /\ commandHistory # << >>
    /\ Last(commandHistory).goal = CHECK_GRIP

SlowApproach(i, bBoxes, r1, r2) ==
    (/\ BallFound(i, bBoxes, r1, r2)
     /\ ~CaptureCondition(decisions[i], bBoxes)
     /\ BallDistance(decisions[i], bBoxes) < 250) =>
        /\ lastOp'.result # Thrown
        /\ lastOp'.result[1].goal = GO2BALL
        /\ EngineActions(lastOp'.result[1]) =
               << <<"turn", BallAngle(decisions[i], bBoxes)>>,
                  <<"gripperOpen", 0>>,
                  <<"setSpeed", MAX_SPEED \div 20>>,
                  <<"drive", BallDistance(decisions[i], bBoxes) + 30>> >>

\* C17: slow approach: a ball that is not in the capture position and is
\* nearer than 250 mm makes the decision return a command tagged GO_TO_BALL
\* with the actions turn by the angle, gripper open, speed 5% of MAX_SPEED,
\* drive (distance + 30), whether or not the obstacle flag is set.
C17_SlowApproach ==
    [][\A i \in 1..Len(decisions), bBoxes \in EngineResponses, r1, r2 \in RandomDraws :
           SlowApproach(i, bBoxes, r1, r2)]_vars

\* a slow approach to a ball off the centre has just been decided for a
\* message with the obstacle flag
C17_Witness ==
    /\ lastOp.op = "decided"
    /\ lastOp.result # Thrown
    /\ lastOp.result[1].goal = GO2BALL
    /\ Len(lastOp.result[1].actions) = 5
    /\ lastOp.result[1].actions[1][2] # 0
    /\ lastOp.result[1].actions[2] = <<"gripperOpen", 0>>
    /\ Last(inboundMsgHistory).obstacleFound

\* what navigate2ball and navigate2home make of the command of a search
\* strategy for decision d
Finished(command, d) ==
    Returned(SendSensorMessage(SetCorrelationID(command, d.msg.timestampMs)))

\* command c neither turns by angle nor drives distance
Avoids(c, angle, distance) ==
    \A k \in 1..Len(c.actions) :
        c.actions[k] # <<"turn", angle>> /\ c.actions[k] # <<"drive", distance>>

ObstacleSearch(i, bBoxes, r1, r2) ==
    /\ (/\ BallFound(i, bBoxes, r1, r2)
        /\ BallDistance(decisions[i], bBoxes) >= 250
        /\ decisions[i].msg.obstacleFound) =>
           /\ lastOp'.result =
                  Finished(BallSearchStrategy(commandHistory, r1, r2), decisions[i])
           /\ lastOp'.result[1].goal \in {SEEK_BALL_TURN, SEEK_BALL_MOVE}
           /\ Avoids(lastOp'.result[1], BallAngle(decisions[i], bBoxes),
                     BallDistance(decisions[i], bBoxes) - 125)
    /\ (/\ HomeFound(i, bBoxes, r1, r2)
        /\ HomeDistance(decisions[i], bBoxes) >= 850
        /\ decisions[i].msg.obstacleFound) =>
           /\ lastOp'.result =
                  Finished(HomeSearchStrategy(commandHistory, r1), decisions[i])
           /\ Avoids(lastOp'.result[1], FindAngle(HomeTarget(decisions[i], bBoxes)[1]),
                     HomeDistance(decisions[i], bBoxes) - 850 + 100)

\* C18: an obstacle forces a new search in both objectives: with the obstacle
\* flag set, a ball at 250 mm or more, or a base at 850 mm or more, makes the
\* decision return what the search strategy returns for the current history
\* (a seek turn or a relocation), with no turn or drive toward the target.
C18_ObstacleForcesSearch ==
    [][\A i \in 1..Len(decisions), bBoxes \in ObstacleResponses, r1, r2 \in RandomDraws :
           ObstacleSearch(i, bBoxes, r1, r2)]_vars

\* behind an obstacle the car, holding a ball, has turned five times looking
\* at the base and now relocates
C18_Witness ==
    /\ lastOp.op = "decided"
    /\ lastOp.result # Thrown
    /\ lastOp.result[1].goal = GO2BASE
    /\ Len(lastOp.result[1].actions) = 3
    /\ lastOp.result[1].actions[2][1] = "drive"
    /\ CountGoals(commandHistory, SEEK_HOME_TURN) = 5
    /\ Last(inboundMsgHistory).obstacleFound

\* the speed set by the last setSpeed action before the k-th action; 0 when
\* the command has set no speed by then
SpeedInForce(actions, k) ==
    LET set == {j \in 1..(k - 1) : actions[j][1] = "setSpeed"}
    IN  IF set = {} THEN 0
        ELSE actions[CHOOSE j \in set : \A m \in set : m <= j][2]

FarApproach(i, bBoxes, r1, r2) ==
    (/\ BallFound(i, bBoxes, r1, r2)
     /\ BallDistance(decisions[i], bBoxes) >= 250
     /\ ~decisions[i].msg.obstacleFound) =>
        /\ lastOp'.result # Thrown
        /\ lastOp'.result[1].goal = GO2BALL
        /\ \E k \in 1..Len(lastOp'.result[1].actions) :
               /\ lastOp'.result[1].actions[k] = <<"turn", BallAngle(decisions[i], bBoxes)>>
               /\ SpeedInForce(lastOp'.result[1].actions, k) = MAX_SPEED
               /\ \E m \in (k + 1)..Len(lastOp'.result[1].actions) :
                      lastOp'.result[1].actions[m] =
                          <<"drive", BallDistance(decisions[i], bBoxes) - 125>>

\* C19: far branch: a ball at 250 mm or more without the obstacle flag makes
\* the decision return a command tagged GO_TO_BALL that turns by the angle
\* with the speed MAX_SPEED in force and then drives (distance - 125).
C19_FarApproach ==
    [][\A i \in 1..Len(decisions), bBoxes \in EngineResponses, r1, r2 \in RandomDraws :
           FarApproach(i, bBoxes, r1, r2)]_vars

\* the number of actions of c that increment the ball count
BallCounts(c) == Cardinality({k \in 1..Len(c.actions) : c.actions[k][1] = "addBallCount"})

Release(i, bBoxes, r1, r2) ==
    (/\ HomeFound(i, bBoxes, r1, r2)
     /\ HomeDistance(decisions[i], bBoxes) < 850) =>
        /\ lastOp'.result # Thrown
        /\ lastOp'.result[1].goal = GO2BALL
        /\ EngineActions(lastOp'.result[1]) =
               << <<"addBallCount", 1>>,
                  <<"gripperOpen", 0>>,
                  <<"setSpeed", MAX_SPEED \div 10>>,
                  <<"drive", -100>>,
                  <<"setSpeed", MAX_SPEED>>,
                  <<"drive", -1000>>,
                  <<"setSpeed", TURN_SPEED>>,
                  <<"turnRight", 90>>,
                  <<"gripperClose", 0>> >>
        /\ BallCounts(lastOp'.result[1]) = 1

\* C20: arrival at the base: a base nearer than 850 mm, whatever the obstacle
\* flag, makes the decision return a command tagged GO_TO_BALL with the
\* actions ball-count increment, gripper open, drive -100 at MAX_SPEED/10,
\* drive -1000 at MAX_SPEED, turn right 90 at the turn speed, gripper close;
\* the command increments the ball count once.
C20_Release ==
    [][\A i \in 1..Len(decisions), bBoxes \in EngineResponses, r1, r2 \in RandomDraws :
           Release(i, bBoxes, r1, r2)]_vars

\* the ball has just been released at the base with an obstacle ahead
C20_Witness ==
    /\ lastOp.op = "decided"
    /\ lastOp.result # Thrown
    /\ lastOp.result[1].goal = GO2BALL
    /\ BallCounts(lastOp.result[1]) = 1
    /\ Last(commandHistory).goal = GO2BASE
    /\ Last(inboundMsgHistory).obstacleFound

\* Helpers for the search strategy: the physical actions of a command by kind
TurnOps == {"turn", "turnRight", "turnLeft"}
DriveOps == {"drive"}
SpeedOps == {"setSpeed"}

ActionsOf(c, ops) == {k \in 1..Len(c.actions) : c.actions[k][1] \in ops}

\* the step is the completion of the i-th decision on an answer that shows no
\* object of the wanted kind
TargetAbsent(i, bBoxes, r1, r2) ==
    /\ RecognizeObjectsDone(i, bBoxes, r1, r2)
    /\ IF decisions[i].objective = "home"
       THEN HomeTarget(decisions[i], bBoxes) = << >>
       ELSE BallTarget(decisions[i], bBoxes) = << >>

TurnOnly(c, goal, angle) ==
    /\ c.mode = AUTOMATIC_MODE
    /\ c.goal = goal
    /\ ActionsOf(c, DriveOps) = {}
    /\ Cardinality(ActionsOf(c, TurnOps)) = 1
    /\ \A k \in ActionsOf(c, TurnOps) : c.actions[k] = <<"turn", angle>>

Relocation(c, goals) ==
    /\ c.goal \in goals
    /\ ActionsOf(c, TurnOps) = {}
    /\ Cardinality(ActionsOf(c, DriveOps)) = 1

SearchChoice(i, bBoxes, r1, r2) ==
    TargetAbsent(i, bBoxes, r1, r2) =>
        /\ lastOp'.result # Thrown
        /\ LET c == lastOp'.result[1]
           IN  IF decisions[i].objective = "home"
               THEN IF CountGoals(commandHistory, SEEK_HOME_TURN) < 5
                    THEN TurnOnly(c, SEEK_HOME_TURN, 60)
                    ELSE Relocation(c, HomeGoals)
               ELSE IF CountGoals(commandHistory, SEEK_BALL_TURN) < 5
                    THEN TurnOnly(c, SEEK_BALL_TURN, 67)
                    ELSE Relocation(c, {SEEK_BALL_MOVE})

\* C21: the search strategy chooses by the count of consecutive seek turns at
\* the end of the history only: below 5 the command only turns (automatic
\* mode, SEEK_BALL_TURN with a turn of 67 degrees for the ball, SEEK_HOME_TURN
\* with a turn of 60 degrees for the base, no drive action); from 5 on the
\* command relocates the car (SEEK_BALL_MOVE for the ball, a goal that keeps
\* the return-to-base objective for the base) with exactly one drive action
\* and no turn.
C21_SearchChoice ==
    [][\A i \in 1..Len(decisions), bBoxes \in ScoutResponses, r1, r2 \in ScoutDraws :
          SearchChoice(i, bBoxes, r1, r2)]_vars

\* the base was searched with five turns in a row and the car relocates
C21_Witness ==
    /\ lastOp.op = "decided"
    /\ lastOp.result # Thrown
    /\ Relocation(lastOp.result[1], {GO2BASE})
    /\ CountGoals(commandHistory, SEEK_HOME_TURN) = 5
    /\ ~Last(inboundMsgHistory).obstacleFound

SearchSpeed(i, bBoxes, r1, r2) ==
    TargetAbsent(i, bBoxes, r1, r2) =>
        /\ lastOp'.result # Thrown
        /\ LET c == lastOp'.result[1]
           IN  /\ ActionsOf(c, TurnOps \cup DriveOps) # {}
               /\ \A k \in ActionsOf(c, TurnOps \cup DriveOps) :
                      SpeedInForce(c.actions, k) = MAX_SPEED \div 10
               /\ \A k \in ActionsOf(c, SpeedOps) : c.actions[k][2] # MAX_SPEED

\* C22: every command of the search strategy, the seek turn and the
\* relocation, for the ball and for the base, sets the reduced speed
\* MAX_SPEED / 10 before its turn or drive action, and none sets MAX_SPEED.
C22_SearchSpeed ==
    [][\A i \in 1..Len(decisions), bBoxes \in ScoutResponses, r1, r2 \in ScoutDraws :
          SearchSpeed(i, bBoxes, r1, r2)]_vars

GripperOps == {"gripperOpen", "gripperClose"}
PhysicalOps == TurnOps \cup DriveOps \cup SpeedOps \cup GripperOps

\* the step is the handler admitting msg and calling the engine with it
EngineCalled(msg) ==
    /\ InboudMessageHandler(msg)
    /\ lastOp'.op \in {"home", "ball", "end", "throw"}

EndOfRun(msg) ==
    (/\ EngineCalled(msg)
     /\ msg.ballsCollected >= BALLS_NEEDED
     /\ (commandHistory = << >> \/ Last(commandHistory).goal \notin HomeGoals)) =>
        /\ lastOp'.op = "end"
        /\ lastOp'.result # Thrown
        /\ lastOp'.result[1].goal = GAME_END
        /\ lastOp'.result[1].mode = Undefined
        /\ ActionsOf(lastOp'.result[1], PhysicalOps) = {}

\* C23: when the car carries at least BALLS_NEEDED balls and the history does
\* not end with a GO_TO_BASE or SEEK_HOME_TURN command (an empty history
\* included), the engine answers with a command tagged GAME_END that has no
\* turn, drive, speed or gripper action and sets no mode.
C23_EndOfRun == [][\A msg \in SensorMessages : EndOfRun(msg)]_vars

\* the end-of-run command was given on an empty history
C23_Witness ==
    /\ lastOp.op = "end"
    /\ lastOp.result # Thrown
    /\ lastOp.result[1].goal = GAME_END
    /\ commandHistory = << >>
    /\ Last(inboundMsgHistory).ballsCollected >= BALLS_NEEDED

\* the step hands an engine command for an observation with all balls
\* collected to the handler's callback: the end-of-run command at once, or
\* the command of a waiting decision
DecidedWithAllBalls(c) ==
    \/ \E msg \in SensorMessages :
          /\ EngineCalled(msg)
          /\ msg.ballsCollected >= BALLS_NEEDED
          /\ lastOp'.op = "end"
          /\ c = lastOp'.result
    \/ \E i \in 1..Len(decisions), bBoxes \in VisionResponses, r1, r2 \in RandomDraws :
          /\ RecognizeObjectsDone(i, bBoxes, r1, r2)
          /\ decisions[i].msg.ballsCollected >= BALLS_NEEDED
          /\ c = lastOp'.result

\* C24: GAME_END is final for the engine: once a GAME_END command has been
\* published and appended to the history, every later decision of the engine
\* for an observation with at least BALLS_NEEDED balls is GAME_END again and
\* carries no physical action.
C24_GameEndFinal ==
    [][GameEnded =>
          \A c \in {lastOp'.result} :
              DecidedWithAllBalls(c) =>
                  /\ c # Thrown
                  /\ c[1].goal = GAME_END
                  /\ ActionsOf(c[1], PhysicalOps) = {}]_vars

\* the step hands the command c, made by the engine for msg, to the handler's
\* callback: at once (the end-of-run command, a simulated command) or when
\* the decision waiting for the inference service completes
EngineAnswered(msg, c) ==
    \/ /\ InboudMessageHandler(msg)
       /\ lastOp'.op \in {"end", "simulated"}
       /\ c = lastOp'.result[1]
    \/ \E i \in 1..Len(decisions), bBoxes \in VisionResponses, r1, r2 \in RandomDraws :
          /\ RecognizeObjectsDone(i, bBoxes, r1, r2)
          /\ decisions[i].msg = msg
          /\ lastOp'.result # Thrown
          /\ c = lastOp'.result[1]

\* C25: every command nextMove returns, from ball-seeking (the simulation
\* mode and the search and obstacle paths included), from return-to-base and
\* from the end of the run, carries the timestampMs of the observation it was
\* made for as its correlation identifier.
C25_Correlation ==
    [][\A msg \in SimulationMessages :
          \A c \in {d \in {lastOp'.result} : d # NoCommand} :
              EngineAnswered(msg, c[1]) => c[1].correlationID = msg.timestampMs]_vars

Goals ==
    {GO2BALL, GO2BASE, SEEK_BALL_TURN, SEEK_BALL_MOVE, SEEK_HOME_TURN, CHECK_GRIP,
     GAME_END, Undefined}

\* the last k commands of h have the goal and the command before them, if
\* there is one, has another
TrailingRun(h, goal, k) ==
    /\ k \in 0..Len(h)
    /\ \A j \in (Len(h) - k + 1)..Len(h) : h[j].goal = goal
    /\ k < Len(h) => h[Len(h) - k].goal # goal

\* C26: countGoals(g) is 0 on the empty history, is exactly k on a history
\* whose last k commands have the goal g and whose command before them has
\* another goal or does not exist, and never exceeds the length of the
\* history.
C26_CountGoals ==
    /\ commandHistory = << >> => \A goal \in Goals : CountGoals(commandHistory, goal) = 0
    /\ \A goal \in Goals :
           /\ CountGoals(commandHistory, goal) <= Len(commandHistory)
           /\ \A k \in 0..Len(commandHistory) :
                  TrailingRun(commandHistory, goal, k) =>
                      CountGoals(commandHistory, goal) = k

\* the engine has counted five seek turns after an older command and relocates
C26_Witness ==
    /\ lastOp.op = "decided"
    /\ lastOp.result # Thrown
    /\ lastOp.result[1].goal = SEEK_BALL_MOVE
    /\ TrailingRun(commandHistory, SEEK_BALL_TURN, 5)
    /\ Len(commandHistory) > 5

\* Helpers for the choice among the objects of a picture
TargetLabel(d) ==
    <<d.msg.color>> \o (IF d.objective = "home" THEN HOME_LABEL_SUFFIX ELSE BALL_LABEL_SUFFIX)

Target(d, bBoxes) == FindNearestObject(TargetLabel(d), bBoxes)

Size(obj) == Max(obj.w, obj.h) * obj.score

\* a ball of low score with its top edge high in the picture
Skipped(obj) ==
    /\ Contains(obj.label, BALL_LABEL_SUFFIX)
    /\ obj.score < 50
    /\ obj.y < 200

\* the positions in bBoxes of the objects of the wanted kind that are not skipped
Candidates(objectType, bBoxes) ==
    {k \in 1..Len(bBoxes) : ~Skipped(bBoxes[k]) /\ Contains(bBoxes[k].label, objectType)}

Largest(objectType, bBoxes) ==
    {k \in Candidates(objectType, bBoxes) :
        \A j \in Candidates(objectType, bBoxes) : Size(bBoxes[j]) <= Size(bBoxes[k])}

\* the scan runs from the last box to the first: of several positions the
\* greatest is met first
FirstMet(positions) == CHOOSE k \in positions : \A j \in positions : j <= k

Selection(i, bBoxes, r1, r2) ==
    (/\ RecognizeObjectsDone(i, bBoxes, r1, r2)
     /\ Candidates(TargetLabel(decisions[i]), bBoxes) # {}) =>
        LET best == bBoxes[FirstMet(Largest(TargetLabel(decisions[i]), bBoxes))]
        IN  /\ Target(decisions[i], bBoxes) = <<best>>
            /\ lastOp'.result = Navigate(decisions[i], <<best>>, r1, r2)

Filter(i, bBoxes, r1, r2) ==
    RecognizeObjectsDone(i, bBoxes, r1, r2) =>
        /\ \A k \in 1..Len(bBoxes) :
               /\ IsFalsePositive(bBoxes[k]) <=> Skipped(bBoxes[k])
               /\ Skipped(bBoxes[k]) => Target(decisions[i], bBoxes) # <<bBoxes[k]>>
        /\ Candidates(TargetLabel(decisions[i]), bBoxes) # {} =>
               Target(decisions[i], bBoxes) # << >>
        /\ Candidates(TargetLabel(decisions[i]), bBoxes) = {} =>
               /\ Target(decisions[i], bBoxes) = << >>
               /\ lastOp'.result = Navigate(decisions[i], << >>, r1, r2)

\* C28: the false-positive filter skips a ball exactly when its score is
\* below 0.5 and its top edge y is below 0.2; a ball with a score of 0.5 or
\* more, or with y of 0.2 or more, is never discarded by the filter, and a
\* skipped object is never returned, even when it is the only one of the
\* wanted label.
C28_Filter ==
    [][\A i \in 1..Len(decisions), bBoxes \in SelectResponses, r1, r2 \in RandomDraws :
          Filter(i, bBoxes, r1, r2)]_vars

\* a faint ball low in the picture was approached
C28_Witness ==
    /\ lastOp.op = "decided"
    /\ lastOp.result # Thrown
    /\ lastOp.result[1].goal = GO2BALL
    /\ ~Skipped(BallLowFaint)
    /\ lastOp.result = Navigate2ball(commandHistory, Last(inboundMsgHistory),
                                     <<BallLowFaint>>, 500, 500)

Absence(i, bBoxes, r1, r2) ==
    (/\ RecognizeObjectsDone(i, bBoxes, r1, r2)
     /\ Candidates(TargetLabel(decisions[i]), bBoxes) = {}) =>
        /\ lastOp'.result # Thrown
        /\ lastOp'.result =
               Finished(IF decisions[i].objective = "home"
                        THEN HomeSearchStrategy(commandHistory, r1)
                        ELSE BallSearchStrategy(commandHistory, r1, r2),
                        decisions[i])

\* C29: a target that is not in the picture is no error: on every answer,
\* the empty one included, without an object of the wanted label that the
\* filter lets through, navigate2ball and navigate2home return the command
\* of the search strategy for the current history and do not fail.
C29_Absence ==
    [][\A i \in 1..Len(decisions), bBoxes \in ScoutResponses, r1, r2 \in ScoutDraws :
          Absence(i, bBoxes, r1, r2)]_vars

\* the ball and then, after two turns, the base were searched and not found
C29_Witness ==
    /\ lastOp.op = "decided"
    /\ lastOp.result # Thrown
    /\ lastOp.result[1].goal = SEEK_HOME_TURN
    /\ CountGoals(commandHistory, SEEK_HOME_TURN) = 2
    /\ \E k \in 1..Len(commandHistory) : commandHistory[k].goal = SEEK_BALL_TURN

\* commands c1 and c2 have the same mode, the same goal and the same actions
\* but for the distances they drive
Alike(c1, c2) ==
    /\ c1.mode = c2.mode
    /\ c1.goal = c2.goal
    /\ Len(c1.actions) = Len(c2.actions)
    /\ \A k \in 1..Len(c1.actions) :
           /\ c1.actions[k][1] = c2.actions[k][1]
           /\ c1.actions[k][1] \notin DriveOps => c1.actions[k] = c2.actions[k]

SearchDeterminism(i, bBoxes, r1, r2) ==
    TargetAbsent(i, bBoxes, r1, r2) =>
        /\ lastOp'.result # Thrown
        /\ \A s1, s2 \in ScoutDraws :
               \A other \in {Navigate(decisions[i], bBoxes, s1, s2)} :
                   /\ other # Thrown
                   /\ Alike(lastOp'.result[1], other[1])

\* C30: the search strategy is deterministic in the goal and in the kind of
\* action: on the same history it gives the same goal tag and the same kind
\* of action, a turn or a drive, whatever the random source gives; only the
\* distance driven and its sign may differ.
C30_SearchDeterminism ==
    [][\A i \in 1..Len(decisions), bBoxes \in ScoutResponses, r1, r2 \in ScoutDraws :
          SearchDeterminism(i, bBoxes, r1, r2)]_vars

\* the car relocates backwards by the largest distance, where other draws
\* make it relocate forwards by the smallest
C30_Witness ==
    /\ lastOp.op = "decided"
    /\ lastOp.result # Thrown
    /\ lastOp.result[1].goal = SEEK_BALL_MOVE
    /\ \E k \in ActionsOf(lastOp.result[1], DriveOps) :
           lastOp.result[1].actions[k][2] = -699
    /\ \E k \in ActionsOf(BallSearchStrategy(commandHistory, 0, 999), DriveOps) :
           BallSearchStrategy(commandHistory, 0, 999).actions[k][2] = 100

RelocationRange(i, bBoxes, r1, r2) ==
    TargetAbsent(i, bBoxes, r1, r2) =>
        /\ lastOp'.result # Thrown
        /\ LET c == lastOp'.result[1]
           IN  IF decisions[i].objective = "home"
               THEN CountGoals(commandHistory, SEEK_HOME_TURN) >= 5 =>
                        /\ ActionsOf(c, DriveOps) # {}
                        /\ \A k \in ActionsOf(c, DriveOps) : c.actions[k][2] \in 200..899
               ELSE CountGoals(commandHistory, SEEK_BALL_TURN) >= 5 =>
                        /\ ActionsOf(c, DriveOps) # {}
                        /\ \A k \in ActionsOf(c, DriveOps) :
                               /\ Abs(c.actions[k][2]) \in 100..699
                               /\ c.actions[k][2] < 0 => r2 < 250

\* C31: the relocation distances stay in their ranges for every value of the
\* random source: the ball relocation drives between 100 and 700 mm (700
\* excluded), backwards only when the second draw is below 0.25; the home
\* relocation drives between 200 and 900 mm (900 excluded), never backwards.
C31_RelocationRange ==
    [][\A i \in 1..Len(decisions), bBoxes \in ScoutResponses, r1, r2 \in ScoutDraws :
          RelocationRange(i, bBoxes, r1, r2)]_vars

\* the base was searched with five turns and the car relocates by the largest
\* distance
C31_Witness ==
    /\ lastOp.op = "decided"
    /\ lastOp.result # Thrown
    /\ lastOp.result[1].goal = GO2BASE
    /\ CountGoals(commandHistory, SEEK_HOME_TURN) = 5
    /\ \E k \in ActionsOf(lastOp.result[1], DriveOps) : lastOp.result[1].actions[k][2] = 899

\* the distance of the claim for a box of an object of the given size: the
\* pinhole distance is PinholeNum / PinholeDen, the result is in whole
\* millimetres
BandDistance(bBox, size) ==
    LET n == PinholeNum(bBox, size)
        d == PinholeDen(bBox)
    IN  CASE n < 95 * d -> 20
          [] 95 * d <= n /\ n < 325 * d -> Round(n - 35 * d, d)
          [] 325 * d <= n -> Round(n, d)

DrivesBy(c, distances) ==
    \A k \in ActionsOf(c, DriveOps) : c.actions[k][2] \in distances

DistanceBands(i, bBoxes, r1, r2) ==
    /\ BallFound(i, bBoxes, r1, r2) =>
           LET distance == BandDistance(BallTarget(decisions[i], bBoxes)[1], BALL_SIZE_MM)
           IN  /\ BallDistance(decisions[i], bBoxes) = distance
               /\ distance \notin 21..59
               /\ lastOp'.result # Thrown /\ lastOp'.result[1].goal = GO2BALL =>
                      DrivesBy(lastOp'.result[1], {distance + 30, distance - 125})
    /\ HomeFound(i, bBoxes, r1, r2) =>
           LET distance == BandDistance(HomeTarget(decisions[i], bBoxes)[1], HOME_SIZE_MM)
           IN  /\ HomeDistance(decisions[i], bBoxes) = distance
               /\ distance \notin 21..59

\* C32: findDistanceMM corrects the pinhole distance in two bands with exact
\* bounds: below 95 mm the result is 20; from 95 mm up to but not including
\* 325 mm it is the distance less 35; from 325 mm on it is the distance as it
\* is (the result always in whole millimetres).  The result jumps at 95 and
\* at 325, and no result lies strictly between 20 and 60.
C32_DistanceBands ==
    [][\A i \in 1..Len(decisions), bBoxes \in GeometryResponses, r1, r2 \in RandomDraws :
          DistanceBands(i, bBoxes, r1, r2)]_vars

\* a ball just above the first bound (95.09 mm, taken for 60) was approached
\* slowly, by 90 mm
C32_Witness ==
    /\ lastOp.op = "decided"
    /\ lastOp.result # Thrown
    /\ lastOp.result[1].goal = GO2BALL
    /\ BandDistance(BallAt95, BALL_SIZE_MM) = 60
    /\ BandDistance(BallBelow95, BALL_SIZE_MM) = 20
    /\ BandDistance(BallBelow325, BALL_SIZE_MM) = 289
    /\ BandDistance(BallAt325, BALL_SIZE_MM) = 326
    /\ \E k \in ActionsOf(lastOp.result[1], DriveOps) : lastOp.result[1].actions[k][2] = 90

\* twice the horizontal centre x + w / 2 of a box, in thousandths of the
\* image width: 1000 for a centred box
Centre2(bBox) == 2 * bBox.x + bBox.w

\* the object found by the step's decision, as a set: empty when the step is
\* no decision finding its object
Found(i, bBoxes, r1, r2) ==
    IF BallFound(i, bBoxes, r1, r2) THEN {BallTarget(decisions[i], bBoxes)[1]}
    ELSE IF HomeFound(i, bBoxes, r1, r2) THEN {HomeTarget(decisions[i], bBoxes)[1]}
    ELSE {}

TurnsBy(c, angle) ==
    \A k \in ActionsOf(c, {"turn"}) : c.actions[k][2] = angle

AngleStrict(i, bBoxes, r1, r2) ==
    \A b \in Found(i, bBoxes, r1, r2) :
        /\ \A other \in GeometryBoxes :
               Centre2(b) < Centre2(other) => FindAngle(b) < FindAngle(other)
        /\ Centre2(b) = 1000 => FindAngle(b) = 0
        /\ Centre2(b) > 1000 => FindAngle(b) > 0
        /\ Centre2(b) < 1000 => FindAngle(b) < 0

AngleMonotonic(i, bBoxes, r1, r2) ==
    \A b \in Found(i, bBoxes, r1, r2) :
        /\ \A other \in GeometryBoxes :
               Centre2(b) < Centre2(other) => FindAngle(b) <= FindAngle(other)
        /\ Centre2(b) = 1000 => FindAngle(b) = 0
        /\ Centre2(b) > 1000 => FindAngle(b) >= 0
        /\ Centre2(b) < 1000 => FindAngle(b) <= 0
        /\ lastOp'.result # Thrown /\ lastOp'.result[1].goal = GO2BALL
           /\ decisions[i].objective = "ball" =>
               TurnsBy(lastOp'.result[1], FindAngle(b))

\* C33 as stated: findAngle is strictly monotonic in the horizontal centre
\* of the box: of two boxes the one with the greater centre has the strictly
\* greater angle; the angle is 0 for a centred box, positive for a centre
\* right of 0.5 and negative for a centre left of it.
C33_AngleStrict ==
    [][\A i \in 1..Len(decisions), bBoxes \in GeometryResponses, r1, r2 \in RandomDraws :
          AngleStrict(i, bBoxes, r1, r2)]_vars

\* C33 as amended: findAngle is monotonic in the horizontal centre of the
\* box, not strictly: of two boxes the one with the greater centre has the
\* greater or the same angle in whole degrees; the angle is 0 for a centred
\* box, 0 or positive for a centre right of 0.5 and 0 or negative for a
\* centre left of it.
C33_AngleMonotonic ==
    [][\A i \in 1..Len(decisions), bBoxes \in GeometryResponses, r1, r2 \in RandomDraws :
          AngleMonotonic(i, bBoxes, r1, r2)]_vars

\* a ball slightly right of the centre was approached with a turn of one
\* degree, where a ball still nearer to the centre gets no turn
C33_Witness ==
    /\ lastOp.op = "decided"
    /\ lastOp.result # Thrown
    /\ lastOp.result[1].goal = GO2BALL
    /\ \E k \in ActionsOf(lastOp.result[1], {"turn"}) : lastOp.result[1].actions[k][2] = 1
    /\ Centre2(BallFar) < Centre2(BallJustRight)
    /\ FindAngle(BallFar) = FindAngle(BallJustRight)

\* the search a command of the history belongs to: the commands of the ball
\* search are tagged SEEK_BALL_TURN and SEEK_BALL_MOVE, those of the search
\* for the base SEEK_HOME_TURN and, for its relocation, GO2BASE with nothing
\* but the drive
SearchOf(c) ==
    IF c.goal \in {SEEK_BALL_TURN, SEEK_BALL_MOVE} THEN "ball"
    ELSE IF c.goal = SEEK_HOME_TURN \/ Relocation(c, {GO2BASE}) THEN "home"
    ELSE "none"

Relocates(c) == Relocation(c, {SEEK_BALL_MOVE, GO2BASE})

\* the number of commands of the same search in a row that end at h[k]
RECURSIVE SearchRun(_, _)
SearchRun(h, k) ==
    IF k > 1 /\ SearchOf(h[k - 1]) = SearchOf(h[k]) THEN SearchRun(h, k - 1) + 1 ELSE 1

\* within an unbroken search every sixth command relocates and the five
\* before it turn
SearchCycle(h) ==
    \A k \in 1..Len(h) :
        SearchOf(h[k]) # "none" =>
            /\ Relocates(h[k]) <=> SearchRun(h, k) % 6 = 0
            /\ ~Relocates(h[k]) =>
                   \/ TurnOnly(h[k], SEEK_BALL_TURN, 67)
                   \/ TurnOnly(h[k], SEEK_HOME_TURN, 60)
            /\ SearchOf(h[k]) = "ball" /\ Relocates(h[k]) => h[k].goal = SEEK_BALL_MOVE

\* the six commands that follow the first m have been appended, and if they
\* all belong to one search, one of them relocates
NextSixRelocate(m) ==
    /\ Len(outboundMsgHistory) >= m + 6
    /\ (\A k \in (m + 1)..(m + 6) :
            /\ SearchOf(outboundMsgHistory[k]) # "none"
            /\ SearchOf(outboundMsgHistory[k]) = SearchOf(outboundMsgHistory[m + 1]))
       => \E k \in (m + 1)..(m + 6) : Relocates(outboundMsgHistory[k])

\* C34: in a run where no target is detected and every command is published
\* and appended before the next decision, the commands of the search are
\* five turns (SEEK_BALL_TURN for the ball, SEEK_HOME_TURN for the base)
\* followed by one relocation (SEEK_BALL_MOVE for the ball), again and again;
\* and as long as the car keeps sending, a relocation is emitted within the
\* next six commands.
C34_SearchEscalates ==
    /\ [](SearchCycle(outboundMsgHistory) /\ commandHistory = outboundMsgHistory)
    /\ \A n \in 0..(MaxPatrolReceived - 6), m \in 0..MaxPatrolReceived :
           (/\ totalMessagesReceived = n
            /\ Len(outboundMsgHistory) = m
            /\ InFlight = 0
            /\ currentDrivingMode = AUTOMATIC_MODE)
           ~> NextSixRelocate(m)

\* after the command that switched to self-driving, the search for the ball
\* has gone through its cycle twice
C34_Witness ==
    /\ Len(outboundMsgHistory) >= 13
    /\ \A k \in 2..13 :
           outboundMsgHistory[k].goal =
               IF (k - 1) % 6 = 0 THEN SEEK_BALL_MOVE ELSE SEEK_BALL_TURN

\* command c is handed on by the handler's callback exactly once: to
\* publishCommand, or in DEBUG mode to nextDrivingCommand
HandedOn(c) ==
    IF currentDrivingMode = DEBUG_MODE
    THEN nextDrivingCommand' = Returned(c) /\ UNCHANGED publishing
    ELSE publishing' = Append(publishing, c) /\ UNCHANGED nextDrivingCommand

\* the handler starts one decision for the message it passes to the engine,
\* or has the command at once
OneDecisionIn(msg) ==
    EngineCalled(msg) =>
        \/ /\ lastOp'.op \in {"home", "ball"}
           /\ decisions' = Append(decisions, [msg |-> msg, objective |-> lastOp'.op])
           /\ UNCHANGED <<publishing, nextDrivingCommand>>
        \/ /\ lastOp'.op = "end"
           /\ lastOp'.result # Thrown
           /\ HandedOn(lastOp'.result[1])
           /\ UNCHANGED decisions

\* the decision that got its answer from perception ends with one command,
\* handed on once
OneCommandOut(i, bBoxes, r1, r2) ==
    RecognizeObjectsDone(i, bBoxes, r1, r2) =>
        /\ decisions' = RemoveAt(decisions, i)
        /\ lastOp'.result # Thrown
        /\ HandedOn(lastOp'.result[1])

\* C35: one observation in, one command out: every admitted observation
\* handled while the mode is not MANUAL starts one decision, and when
\* perception answers, the decision yields exactly one command, which is
\* handed to publishCommand once (or, in DEBUG mode, stored once); no
\* observation yields two commands or a command published twice.
C35_OneCommandPerObservation ==
    [][/\ \A msg \in EngineMessages : OneDecisionIn(msg)
       /\ \A i \in 1..Len(decisions), bBoxes \in EngineResponses, r1, r2 \in RandomDraws :
              OneCommandOut(i, bBoxes, r1, r2)]_vars

\* the command of the grip verification that turns the car to the base:
\* tagged GO2BASE, with no action for the motors or the gripper
GripTransition(c) ==
    /\ c.goal = GO2BASE
    /\ ActionsOf(c, PhysicalOps) = {}

\* a release command has been appended to h and no grip verification has
\* turned the car to the base since
Released(h) ==
    \E k \in 1..Len(h) :
        /\ IsRelease(h[k])
        /\ \A j \in (k + 1)..Len(h) : ~GripTransition(h[j])

AfterRelease(msg) ==
    (EngineCalled(msg) /\ Released(outboundMsgHistory)) =>
        lastOp'.op = IF msg.ballsCollected < BALLS_NEEDED THEN "ball" ELSE "end"

\* C36: after a release command (tagged GO_TO_BALL) has been published and
\* appended, the next decision does not select return-to-base: it is
\* ball-seeking when ballsCollected < BALLS_NEEDED and end-of-run otherwise,
\* and return-to-base is selected again only after a new GO_TO_BASE command of
\* the grip verification.
C36_AfterRelease == [][\A msg \in ScoutMessages : AfterRelease(msg)]_vars

\* the step is the failure of a publish: the call is gone, no call is added,
\* and of the program's state only the error counter has changed
FailureStep ==
    lastOp'.op = "publishFailed" =>
        /\ totalErrors' = totalErrors + 1
        /\ totalMessagesSent' = totalMessagesSent
        /\ outboundMsgHistory' = outboundMsgHistory
        /\ commandHistory' = commandHistory
        /\ Len(publishing') = Len(publishing) - 1
        /\ \A k \in 1..Len(publishing') : \E j \in 1..Len(publishing) : publishing'[k] = publishing[j]
        /\ UNCHANGED <<nextDrivingCommand, decisions, currentDrivingMode, inboundMsgHistory,
                       totalMessagesReceived, rejectedFormatMessages,
                       rejectedOutOfOrderMessages, maxMsgTimeStampMs, listenerStatus>>

\* C37: a publish failure changes nothing but the error counter: totalErrors
\* grows by one, totalMessagesSent and the command history stay as they are,
\* the command is not published again, and the history the next decision
\* reads is the one from before the failure.
C37_PublishFailure == [][FailureStep]_vars

\* the publish of an engine command has just failed after an earlier command
\* was sent; no call is pending and the history holds the earlier command only
C37_Witness ==
    /\ lastOp.op = "publishFailed"
    /\ lastOp.result[1].goal # Undefined
    /\ totalErrors = 1
    /\ publishing = << >>
    /\ totalMessagesSent = 1
    /\ Len(commandHistory) = 1

\* the number of entries a save removes from h: the oldest tenth when h is at
\* the limit, none otherwise
Removed(h, limit) == IF Len(h) >= limit THEN limit \div 10 ELSE 0

\* g is h after one save: the entries of h but the removed oldest ones, in
\* their order, and one new entry at the end
SavedTo(h, g, limit) ==
    /\ Len(g) = Len(h) - Removed(h, limit) + 1
    /\ \A k \in 1..(Len(g) - 1) : g[k] = h[k + Removed(h, limit)]

SaveStep ==
    /\ outboundMsgHistory' # outboundMsgHistory =>
           /\ SavedTo(outboundMsgHistory, outboundMsgHistory', MAX_OUTBOUND_HISTORY)
           /\ lastOp'.result # NoCommand
           /\ Last(outboundMsgHistory') = lastOp'.result[1]
    /\ inboundMsgHistory' # inboundMsgHistory =>
           /\ SavedTo(inboundMsgHistory, inboundMsgHistory', MAX_INBOUND_HISTORY)
           /\ Last(inboundMsgHistory').timestampMs = maxMsgTimeStampMs'

\* C38: the stored histories are bounded: outboundMsgHistory and
\* inboundMsgHistory hold at most 3600 entries each; a save that finds the
\* history at the limit removes the oldest tenth only, keeps the other entries
\* in their order and appends the new entry at the end, so that the newest
\* entries are never removed or reordered.
C38_HistoriesBounded ==
    /\ [](Len(outboundMsgHistory) <= 3600 /\ Len(inboundMsgHistory) <= 3600)
    /\ [][SaveStep]_vars

\* both histories have been truncated: each has lost its oldest 360 entries
\* and ends with the entries saved last
C38_Witness ==
    /\ Len(outboundMsgHistory) = 3600 - 360 + 1
    /\ Len(inboundMsgHistory) = 3600 - 360 + 1
    /\ lastOp.op = "published"
    /\ Last(outboundMsgHistory) = lastOp.result[1]
    /\ inboundMsgHistory[1].timestampMs = StartTime + 361

\* the handler's step for msg: the message is counted as received and is
\* either rejected (one more error, not saved, nothing started or handed on)
\* or saved, once, at the end of the inbound history
AccountedFor(msg) ==
    InboudMessageHandler(msg) =>
        /\ totalMessagesReceived' = totalMessagesReceived + 1
        /\ IF lastOp'.op = "rejected"
           THEN /\ totalErrors' = totalErrors + 1
                /\ UNCHANGED <<inboundMsgHistory, decisions, publishing, nextDrivingCommand>>
           ELSE /\ totalErrors' = totalErrors
                /\ inboundMsgHistory' = Append(inboundMsgHistory, msg)
                /\ UNCHANGED <<rejectedFormatMessages, rejectedOutOfOrderMessages>>

\* C39: inbound accounting: between resets totalMessagesReceived is the
\* number of admitted messages (those in the inbound history) plus
\* rejectedFormatMessages plus rejectedOutOfOrderMessages; every rejected
\* message increments totalErrors by exactly one, is not saved and does not
\* reach the engine; every admitted message is saved exactly once, in every
\* mode.
C39_InboundAccounting ==
    /\ [](totalMessagesReceived =
              Len(inboundMsgHistory) + rejectedFormatMessages + rejectedOutOfOrderMessages)
    /\ [][\A msg \in InboundMessages : AccountedFor(msg)]_vars

\* after a reset, in DEBUG mode, one message was admitted, one rejected for
\* its format and one for its age
C39_Witness ==
    /\ ~sameArray
    /\ currentDrivingMode = DEBUG_MODE
    /\ totalMessagesReceived = 3
    /\ Len(inboundMsgHistory) = 1
    /\ rejectedFormatMessages = 1
    /\ rejectedOutOfOrderMessages = 1
    /\ totalErrors = 2

ResetOps == {"reset", "start"}
HandlerOps == {"rejected", "ignored", "home", "ball", "end", "throw", "simulated"}

\* the message passes the out-of-order check of isMessageValid
PassesOrderCheck(msg) == msg.timestampMs # 0 /\ ~(maxMsgTimeStampMs > msg.timestampMs)

\* the times the clock may show when a later message arrives
LaterClocks == {now + 1000 * k : k \in 0..MaxTicks}

\* whether msg would be admitted with maxTs as the maximum seen, at time clock
Admitted(msg, maxTs, clock) ==
    IsMessageValid(msg, maxTs, rejectedFormatMessages, rejectedOutOfOrderMessages, clock)[1]

\* no step but a reset lowers maxMsgTimeStampMs, and only the handler and a
\* reset change it
MaxKept ==
    /\ maxMsgTimeStampMs' < maxMsgTimeStampMs => lastOp'.op \in ResetOps
    /\ maxMsgTimeStampMs' # maxMsgTimeStampMs => lastOp'.op \in ResetOps \cup HandlerOps

MaxUnchangedByRejected(msg) ==
    InboudMessageHandler(msg) =>
        /\ maxMsgTimeStampMs' # maxMsgTimeStampMs =>
               PassesOrderCheck(msg) /\ maxMsgTimeStampMs' = msg.timestampMs
        /\ lastOp'.op = "rejected" => maxMsgTimeStampMs' = maxMsgTimeStampMs

MaxRaisedBySeen(msg) ==
    InboudMessageHandler(msg) =>
        /\ maxMsgTimeStampMs' # maxMsgTimeStampMs =>
               PassesOrderCheck(msg) /\ maxMsgTimeStampMs' = msg.timestampMs
        /\ (lastOp'.op = "rejected" /\ ~PassesOrderCheck(msg)) =>
               maxMsgTimeStampMs' = maxMsgTimeStampMs
        /\ (lastOp'.op = "rejected" /\ PassesOrderCheck(msg)) =>
               /\ TooOld(msg)
               /\ maxMsgTimeStampMs' = msg.timestampMs
        /\ lastOp'.op = "rejected" =>
               \A later \in InboundMessages, clock \in LaterClocks :
                   Admitted(later, maxMsgTimeStampMs', clock)
                       <=> Admitted(later, maxMsgTimeStampMs, clock)

\* C40 as stated: maxMsgTimeStampMs does not decrease between resets and is
\* changed only by a message that passes the out-of-order check; a message
\* rejected for its format, its order or its age leaves it unchanged.
C40_MaxUnchangedByRejected ==
    [][MaxKept /\ \A msg \in InboundMessages : MaxUnchangedByRejected(msg)]_vars

\* C40 as amended: maxMsgTimeStampMs does not decrease between resets and is
\* changed only by a message that passes the out-of-order check; a message
\* rejected for its format or its order leaves it unchanged, a message
\* rejected for its age has passed the out-of-order check and raises it to
\* its own timestamp; no rejected message changes whether a later message is
\* admitted.
C40_MaxRaisedBySeen ==
    [][MaxKept /\ \A msg \in InboundMessages : MaxRaisedBySeen(msg)]_vars

\* the first message received was rejected for its age and has raised the
\* maximum from its initial value to its own timestamp
C40_Witness ==
    /\ lastOp.op = "rejected"
    /\ totalMessagesReceived = 1
    /\ rejectedOutOfOrderMessages = 1
    /\ maxMsgTimeStampMs = StartTime - 61000
    /\ maxMsgTimeStampMs < now - 60 * 1000
====
